---- MODULE Spec2Model ----
(***************************************************************************)
(* Verification model of the vacation-rental recommender (RSM8431):        *)
(* the multi-signal scorer of src/recommender/Recommender.py, the earlier  *)
(* fixed-weight scorer of src/recommender/alt_recommender1.py, and the LLM *)
(* hint client of src/recommender/LLMHelper.py with its callers.           *)
(*                                                                         *)
(* Text is a sequence of one-character strings.  Real-valued scores are    *)
(* fixed-point naturals: the score x is held as floor(x * SCALE).          *)
(***************************************************************************)
EXTENDS Integers, Sequences, FiniteSets, TLC

VARIABLES
    pc,           \* position of the modelled call: "ready", "returned", "raised"
    top_k,        \* Recommender.top_k
    base_weights, \* Recommender.base_weights (hundredths)
    user,         \* the user object handed to recommend
    df,           \* the candidate table handed to recommend (None or a table)
    llm_hints,    \* llm_hints argument (None or a dict)
    llm_ids,      \* llm_ids argument (None or a list)
    d,            \* recommend's scored working copy of df (rows with score columns)
    W,            \* the weights _dynamic_weights returned, as exact fractions
    Wf,           \* the weights as doubles, when _dynamic_weights is called on its own
    ret,          \* the value recommend returned
    llm,          \* the API key configured and the exchange the LLM call will meet
    form,         \* the "Find Stays" form: loc and freeform
    resp,         \* how llm.search ended: its value, or the exception it raised
    candidates,   \* the candidate table tab_find hands to recommend
    find_tags,    \* the llm_tags list tab_find hands to recommend
    call,         \* the function called on its own and its arguments
    out,          \* the value that call returned
    canonical_tags, \* the module-level alias table of smart_search
    corpus,       \* SmartSearch.df, the frame a SmartSearch object keeps
    users,        \* UserManager.users: username -> record
    current_username, \* UserManager.current_username (None or text)
    users_csv     \* the rows of data/users.csv

vars == <<pc, top_k, base_weights, user, df, llm_hints, llm_ids, d, W, Wf, ret,
          llm, form, resp, candidates, find_tags, call, out, canonical_tags, corpus,
          users, current_username, users_csv>>

\* ------------------------------------------------------------------ bounds
MaxRows == 2
MaxTokens == 2
MaxChars == 3

\* fixed-point unit of a real-valued score: 2^5 * 3^2 * 5^2 * 7 * 2
SCALE == 1008 * 100

\* ------------------------------------------------------------------ text
LowerLetters == <<"a","b","c","d","e","f","g","h","i","j","k","l","m",
                  "n","o","p","q","r","s","t","u","v","w","x","y","z">>
UpperLetters == <<"A","B","C","D","E","F","G","H","I","J","K","L","M",
                  "N","O","P","Q","R","S","T","U","V","W","X","Y","Z">>
Digits == <<"0","1","2","3","4","5","6","7","8","9">>

Range(f) == {f[i] : i \in DOMAIN f}

IsSpace(c) == c \in {" ", "\t", "\n"}

\* str.lower() on one character
LowerChar(c) ==
    IF c \in Range(UpperLetters)
    THEN LowerLetters[CHOOSE i \in DOMAIN UpperLetters : UpperLetters[i] = c]
    ELSE c

\* str.lower()
Lower(s) == [i \in DOMAIN s |-> LowerChar(s[i])]

\* re.sub(r"[^a-z0-9\s\-]", " ", s): what the class keeps
Kept(c) == c \in Range(LowerLetters) \/ c \in Range(Digits) \/ IsSpace(c) \/ c = "-"

ReplaceOther(s) == [i \in DOMAIN s |-> IF Kept(s[i]) THEN s[i] ELSE " "]

\* re.sub(r"\s+", " ", s).split(" ") with the empty pieces dropped
RECURSIVE SplitWords(_, _, _)
SplitWords(s, i, cur) ==
    IF i > Len(s)
    THEN (IF cur = <<>> THEN <<>> ELSE <<cur>>)
    ELSE IF IsSpace(s[i])
         THEN (IF cur = <<>> THEN SplitWords(s, i + 1, <<>>)
                             ELSE <<cur>> \o SplitWords(s, i + 1, <<>>))
         ELSE SplitWords(s, i + 1, Append(cur, s[i]))

\* str(x) of a cell or argument: None prints as "None", text is itself
StrNone == <<"N","o","n","e">>

\* a text cell or argument that is Python's None
NoneText == <<"<None>">>

\* x or "" on a text value; also "" if s is None else str(s)
OrEmpty(s) == IF s = NoneText THEN <<>> ELSE s

\* _tok(s): the list of tokens
_tok(s) == SplitWords(ReplaceOther(Lower(OrEmpty(s))), 1, <<>>)

\* " ".join(list)
RECURSIVE JoinSp(_)
JoinSp(l) ==
    IF l = <<>> THEN <<>>
    ELSE IF Len(l) = 1 THEN l[1]
    ELSE l[1] \o <<" ">> \o JoinSp(Tail(l))

\* str.strip()
RECURSIVE LStrip(_)
LStrip(s) == IF s # <<>> /\ IsSpace(s[1]) THEN LStrip(Tail(s)) ELSE s
RECURSIVE RStrip(_)
RStrip(s) ==
    IF s # <<>> /\ IsSpace(s[Len(s)]) THEN RStrip(SubSeq(s, 1, Len(s) - 1)) ELSE s
Strip(s) == RStrip(LStrip(s))

\* w in rl (substring test)
Contains(rl, w) ==
    \E i \in 0..(Len(rl) - Len(w)) : SubSeq(rl, i + 1, i + Len(w)) = w

\* str(n) of a non-negative int
RECURSIVE IntToStr(_)
IntToStr(n) ==
    IF n < 10 THEN <<Digits[n + 1]>>
    ELSE IntToStr(n \div 10) \o <<Digits[(n % 10) + 1]>>

\* _jaccard(a, b) on token sets
_jaccard(a, b) ==
    IF a = {} /\ b = {} THEN 0
    ELSE (Cardinality(a \cap b) * SCALE) \div Cardinality(a \cup b)

\* UserManager.users before any account exists
NoUsers == [k \in {} |-> {}]

\* ------------------------------------------------------------------ values
\* an id cell or an element of llm_ids: an int, a str or None
PInt(n) == [t |-> "int", v |-> <<>>, n |-> n]
PStr(s) == [t |-> "str", v |-> s, n |-> 0]
PNone == [t |-> "none", v |-> <<>>, n |-> 0]

\* str(x)
Str(x) == IF x.t = "int" THEN IntToStr(x.n) ELSE IF x.t = "none" THEN StrNone ELSE x.v

\* row.get(col, default)
Get(row, col, default) == IF col \in DOMAIN row THEN row[col] ELSE default

\* set(list)
ToSet(l) == Range(l)

\* [t for t in (x or []) if t]
RECURSIVE Truthy(_)
Truthy(l) ==
    IF l = <<>> THEN <<>>
    ELSE IF l[1] = <<>> \/ l[1] = NoneText THEN Truthy(Tail(l))
    ELSE <<l[1]>> \o Truthy(Tail(l))

Min(a, b) == IF a <= b THEN a ELSE b
Max(a, b) == IF a >= b THEN a ELSE b
Abs(x) == IF x < 0 THEN -x ELSE x

RECURSIVE SumSeq(_)
SumSeq(l) == IF l = <<>> THEN 0 ELSE l[1] + SumSeq(Tail(l))

\* ------------------------------------------------------------------ Recommender.py
SignalKeys == <<"env", "budget", "group", "tag_feature", "location", "llm_sim">>

\* Recommender.__init__: the default base_weights, in hundredths
DefaultBaseWeights ==
    [env |-> 22, budget |-> 22, group |-> 18, tag_feature |-> 18,
     location |-> 10, llm_sim |-> 10]

\* Recommender.__init__: id_boost_weight, in hundredths
id_boost_weight == 20

\* math.exp(-0.5 * dist) for dist = 1, 2, ... as floor(x * SCALE)
ExpHalfTable ==
    <<61138, 37082, 22491, 13641, 8274, 5018, 3043, 1846, 1119, 679, 411, 249,
      151, 91, 55, 33, 20, 12, 7, 4, 2, 1, 1>>

ExpHalf(dist) ==
    IF dist <= 0 THEN SCALE
    ELSE IF dist <= Len(ExpHalfTable) THEN ExpHalfTable[dist]
    ELSE 0

_location_score(row_loc, wanted_locs) ==
    IF wanted_locs = <<>> THEN 0
    ELSE LET rl == Lower(OrEmpty(row_loc))
         IN  IF rl = <<>> THEN 0
             ELSE IF \E i \in DOMAIN wanted_locs :
                        /\ wanted_locs[i] # <<>>
                        /\ Contains(rl, Lower(wanted_locs[i]))
                  THEN SCALE
                  ELSE _jaccard(ToSet(_tok(rl)), ToSet(_tok(JoinSp(wanted_locs))))

_env_score(row, user_env, llm_envs) ==
    LET tokens == ToSet(_tok(Get(row, "environment", <<>>))
                        \o _tok(Get(row, "tags", <<>>))
                        \o _tok(Get(row, "property_type", <<>>)))
        wants  == ToSet(_tok(user_env)) \cup ToSet(_tok(JoinSp(llm_envs)))
    IN  IF wants = {} THEN SCALE \div 2 ELSE _jaccard(tokens, wants)

\* variant: full score anywhere inside the range, linear falloff outside it
_budget_score_banded(price, bmin, bmax) ==
    IF bmin = 0 /\ bmax = 0 THEN SCALE \div 2
    ELSE LET lo   == Min(bmin, bmax)
             hi   == Max(bmin, bmax)
             dist == IF price < lo THEN lo - price ELSE price - hi
         IN  IF lo <= price /\ price <= hi THEN SCALE
             ELSE IF hi = lo \/ dist >= hi - lo THEN 0
             ELSE ((hi - lo - dist) * SCALE) \div (hi - lo)

\* variant: the falloff without max(0.0, ...)
_budget_score_unclamped(price, bmin, bmax) ==
    IF bmin = 0 /\ bmax = 0 THEN SCALE \div 2
    ELSE LET lo   == Min(bmin, bmax)
             hi   == Max(bmin, bmax)
             rng2 == 2 * (hi - lo)
             off2 == Abs(2 * price - (lo + hi))
         IN  IF rng2 = 0 THEN (IF off2 = 0 THEN SCALE ELSE -SCALE)
             ELSE ((rng2 - off2) * SCALE) \div rng2

\* variant: the falloff centred on the lower end of the range
_budget_score_lower_edge(price, bmin, bmax) ==
    IF bmin = 0 /\ bmax = 0 THEN SCALE \div 2
    ELSE LET lo   == Min(bmin, bmax)
             hi   == Max(bmin, bmax)
             rng  == hi - lo
             off  == Abs(price - lo)
         IN  IF rng = 0 THEN (IF off = 0 THEN SCALE ELSE 0)
             ELSE IF off >= rng THEN 0
             ELSE ((rng - off) * SCALE) \div rng

\* variant: lo, hi = bmin, bmax as given, without min and max
_budget_score_ordered(price, bmin, bmax) ==
    IF bmin = 0 /\ bmax = 0 THEN SCALE \div 2
    ELSE LET rng2 == 2 * (bmax - bmin)
             off2 == Abs(2 * price - (bmin + bmax))
         IN  IF rng2 <= 0 THEN (IF off2 = 0 THEN SCALE ELSE 0)
             ELSE IF off2 >= rng2 THEN 0
             ELSE ((rng2 - off2) * SCALE) \div rng2

\* variant: score 0 when no budget range is given
_budget_score_zero_inactive(price, bmin, bmax) ==
    IF bmin = 0 /\ bmax = 0 THEN 0
    ELSE LET lo   == Min(bmin, bmax)
             hi   == Max(bmin, bmax)
             rng2 == 2 * (hi - lo)
             off2 == Abs(2 * price - (lo + hi))
         IN  IF rng2 = 0 THEN (IF off2 = 0 THEN SCALE ELSE 0)
             ELSE IF off2 >= rng2 THEN 0
             ELSE ((rng2 - off2) * SCALE) \div rng2

\* variant: without the neutral 0.5 for a missing budget, the range 0..0 is
\* scored like any other
_budget_score_no_neutral(price, bmin, bmax) ==
    LET lo   == Min(bmin, bmax)
        hi   == Max(bmin, bmax)
        rng2 == 2 * (hi - lo)
        off2 == Abs(2 * price - (lo + hi))
    IN  IF rng2 = 0 THEN (IF off2 = 0 THEN SCALE ELSE 0)
        ELSE IF off2 >= rng2 THEN 0
        ELSE ((rng2 - off2) * SCALE) \div rng2

\* prices and budgets are whole amounts, so with lo = hi the divisor 1e-9
\* leaves 1.0 at the midpoint and 0.0 everywhere else
_budget_score(price, bmin, bmax) ==
    IF bmin = 0 /\ bmax = 0 THEN SCALE \div 2
    ELSE LET lo   == Min(bmin, bmax)
             hi   == Max(bmin, bmax)
             rng2 == 2 * (hi - lo)
             off2 == Abs(2 * price - (lo + hi))
         IN  IF rng2 = 0 THEN (IF off2 = 0 THEN SCALE ELSE 0)
             ELSE IF off2 >= rng2 THEN 0
             ELSE ((rng2 - off2) * SCALE) \div rng2

\* variant: the capacity test with strict bounds
_group_score_strict(row, gsize) ==
    LET lo == Get(row, "min_guests", 0)
        hi == Get(row, "max_guests", 0)
    IN  IF gsize <= 0 THEN SCALE \div 2
        ELSE IF lo < gsize /\ gsize < hi THEN SCALE
        ELSE LET dist == IF gsize < lo THEN lo - gsize ELSE gsize - hi
             IN  ExpHalf(Max(1, dist))

_group_score(row, gsize) ==
    LET lo == Get(row, "min_guests", 0)
        hi == Get(row, "max_guests", 0)
    IN  IF gsize <= 0 THEN SCALE \div 2
        ELSE IF lo <= gsize /\ gsize <= hi THEN SCALE
        ELSE LET dist == IF gsize < lo THEN lo - gsize ELSE gsize - hi
             IN  ExpHalf(Max(0, dist))

\* the row text both LLM overlap scores tokenise
RowText(row) ==
    JoinSp(<<Get(row, "__fulltext__", <<>>), Get(row, "tags", <<>>),
             Get(row, "features", <<>>), Get(row, "environment", <<>>),
             Get(row, "property_type", <<>>)>>)

_tag_feature_score(row, llm_tags, llm_features) ==
    LET wanted == ToSet(_tok(JoinSp(llm_tags \o llm_features)))
    IN  IF wanted = {} THEN 0 ELSE _jaccard(ToSet(_tok(RowText(row))), wanted)

_llm_similarity(row, llm_tags, llm_features, llm_envs) ==
    LET pool == ToSet(_tok(JoinSp(llm_tags \o llm_features \o llm_envs)))
    IN  IF pool = {} THEN 0 ELSE _jaccard(ToSet(_tok(RowText(row))), pool)

\* the signals _dynamic_weights counts as present
PresentKeys(user_env, bmin, bmax, gsize, has_tags, has_features, has_locs, has_envs) ==
    LET budget_present == (bmin # 0 \/ bmax # 0) /\ ~(bmin = 0 /\ bmax = 0)
        group_present  == gsize # 0 /\ gsize > 0
        env_present    == Strip(user_env) # <<>> \/ has_envs
        tag_present    == has_tags \/ has_features
        loc_present    == has_locs
        sim_present    == has_envs \/ has_tags \/ has_features
    IN  {k \in ToSet(SignalKeys) :
            \/ k = "env" /\ env_present
            \/ k = "budget" /\ budget_present
            \/ k = "group" /\ group_present
            \/ k = "tag_feature" /\ tag_present
            \/ k = "location" /\ loc_present
            \/ k = "llm_sim" /\ sim_present}

\* variant: the returned dict starts from the base weights instead of zeros
_dynamic_weights_unzeroed(bw, user_env, bmin, bmax, gsize, has_tags, has_features, has_locs, has_envs) ==
    LET present == PresentKeys(user_env, bmin, bmax, gsize,
                               has_tags, has_features, has_locs, has_envs)
        total == SumSeq([i \in DOMAIN SignalKeys |->
                            IF SignalKeys[i] \in present THEN bw[SignalKeys[i]] ELSE 0])
    IN  IF present # {} /\ total > 0
        THEN [num |-> [k \in ToSet(SignalKeys) |-> bw[k]], den |-> total]
        ELSE [num |-> [k \in ToSet(SignalKeys) |-> 1], den |-> 6]

\* _dynamic_weights: the weight of key k is num[k] / den
_dynamic_weights(bw, user_env, bmin, bmax, gsize, has_tags, has_features, has_locs, has_envs) ==
    LET present == PresentKeys(user_env, bmin, bmax, gsize,
                               has_tags, has_features, has_locs, has_envs)
        total == SumSeq([i \in DOMAIN SignalKeys |->
                            IF SignalKeys[i] \in present THEN bw[SignalKeys[i]] ELSE 0])
    IN  IF present # {}
        THEN IF total > 0
             THEN [num |-> [k \in ToSet(SignalKeys) |-> IF k \in present THEN bw[k] ELSE 0],
                   den |-> total]
             ELSE [num |-> [k \in ToSet(SignalKeys) |-> IF k \in present THEN 1 ELSE 0],
                   den |-> Cardinality(present)]
        ELSE [num |-> [k \in ToSet(SignalKeys) |-> 1], den |-> 6]

\* ------------------------------------------------------------------ binary64 arithmetic
\* Python floats are IEEE-754 doubles.  A positive double is m * 2^e with
\* 2^52 <= m < 2^53; m is held as the pair <<hi, lo>> = hi * 2^26 + lo, and
\* zero as m = <<0, 0>>.  Only non-negative values occur in the weights.
B26 == 2^26

\* the value of a one-element set: binds an intermediate result once
The(S) == CHOOSE v \in S : TRUE

PGeq(x, y) == x[1] > y[1] \/ (x[1] = y[1] /\ x[2] >= y[2])
PSub(x, y) ==
    IF x[2] >= y[2] THEN <<x[1] - y[1], x[2] - y[2]>>
    ELSE <<x[1] - y[1] - 1, x[2] + B26 - y[2]>>
PAdd(x, y) ==
    <<x[1] + y[1] + ((x[2] + y[2]) \div B26), (x[2] + y[2]) % B26>>
PDbl(x) == PAdd(x, x)
\* (x >> 1) | (x & 1): halve, keeping a lost 1 as a sticky bit
PHalfSticky(x) ==
    <<x[1] \div 2,
      ((x[2] \div 2) + (x[1] % 2) * (B26 \div 2))
        + (IF x[2] % 2 = 1 /\ (x[2] \div 2) % 2 = 0 THEN 1 ELSE 0)>>
\* x >> 3
PShr3(x) == <<x[1] \div 8, (x[2] \div 8) + (x[1] % 8) * (B26 \div 8)>>

Two52 == <<B26, 0>>
Two53 == <<2 * B26, 0>>
Two56 == <<16 * B26, 0>>

FZero == [m |-> <<0, 0>>, e |-> 0]
FOne == [m |-> Two52, e |-> -52]
IsZero(a) == a.m = <<0, 0>>

RECURSIVE NormUp(_, _)
NormUp(m, e) == IF PGeq(m, Two52) THEN [m |-> m, e |-> e] ELSE NormUp(PDbl(m), e - 1)

\* float(n) for an int 0 <= n < 2^26
F64FromInt(n) == IF n = 0 THEN FZero ELSE NormUp(<<0, n>>, 0)

\* round to nearest, ties to even: mantissa q whose discarded part is above
\* half (up) or exactly half (tie)
RoundedM(q, e, up, tie) ==
    LET inc == up \/ (tie /\ q[2] % 2 = 1)
        q1  == IF inc THEN PAdd(q, <<0, 1>>) ELSE q
    IN  IF q1 = Two53 THEN [m |-> Two52, e |-> e + 1] ELSE [m |-> q1, e |-> e]

\* one step of binary long division on <<quotient, remainder>>
DivStep(s, dv) ==
    The({ IF PGeq(PDbl(t[2]), dv)
          THEN <<PAdd(PDbl(t[1]), <<0, 1>>), PSub(PDbl(t[2]), dv)>>
          ELSE <<PDbl(t[1]), PDbl(t[2])>> : t \in {s} })
DivStep4(s, dv) == DivStep(DivStep(DivStep(DivStep(s, dv), dv), dv), dv)
DivStep13(s, dv) ==
    The({ DivStep(DivStep4(t, dv), dv) : t \in {DivStep4(DivStep4(s, dv), dv)} })
DivStep52(s, dv) ==
    The({ The({ DivStep13(u, dv) : u \in {DivStep13(t, dv)} })
          : t \in {The({ DivStep13(u, dv) : u \in {DivStep13(s, dv)} })} })

\* x / y, correctly rounded, for positive doubles: the leading quotient bit
\* is 1 by construction and 52 more follow
FDivV(x, y) ==
    LET first == PGeq(x.m, y.m)
        r0 == IF first THEN PSub(x.m, y.m) ELSE PSub(PDbl(x.m), y.m)
        e  == IF first THEN x.e - y.e - 52 ELSE x.e - y.e - 53
    IN  The({ RoundedM(qr[1], e, PDbl(qr[2]) # y.m /\ PGeq(PDbl(qr[2]), y.m),
                       PDbl(qr[2]) = y.m)
              : qr \in {DivStep52(<<<<0, 1>>, r0>>, y.m)} })

\* a / b (b positive)
FDiv(a, b) ==
    The({ IF IsZero(x) THEN FZero ELSE FDivV(x, y) : x \in {a}, y \in {b} })

RECURSIVE ShrSticky(_, _)
ShrSticky(x, s) ==
    IF s = 0 \/ x = <<0, 0>> \/ x = <<0, 1>> THEN x
    ELSE The({ ShrSticky(h, s - 1) : h \in {PHalfSticky(x)} })

\* x + y, correctly rounded, for positive doubles with x.e >= y.e: three
\* extra low bits (guard, round, sticky) carry the discarded part
FAddV(x, y) ==
    The({ The({ RoundedM(PShr3(S), IF PGeq(S0, Two56) THEN x.e + 1 ELSE x.e,
                         S[2] % 8 > 4, S[2] % 8 = 4)
                : S \in {IF PGeq(S0, Two56) THEN PHalfSticky(S0) ELSE S0} })
          : S0 \in {PAdd(PDbl(PDbl(PDbl(x.m))),
                         ShrSticky(PDbl(PDbl(PDbl(y.m))), x.e - y.e))} })

\* a + b (both non-negative)
FAdd(a, b) ==
    The({ IF IsZero(x) THEN y
          ELSE IF IsZero(y) THEN x
          ELSE IF x.e >= y.e THEN FAddV(x, y) ELSE FAddV(y, x)
          : x \in {a}, y \in {b} })

\* sum(values) of the six keys, left to right from 0
FSum(l) ==
    The({ FAdd(FAdd(FAdd(FAdd(FAdd(v[1], v[2]), v[3]), v[4]), v[5]), v[6])
          : v \in {l} })

\* the double of a base weight given in hundredths: the literal 0.22 is the
\* double nearest 22/100
F64Hundredths(n) == FDiv(F64FromInt(n), F64FromInt(100))

\* variant: the present weights are returned without dividing by their total
_dynamic_weights_f64_raw(bw, user_env, bmin, bmax, gsize, has_tags, has_features, has_locs, has_envs) ==
    LET present == PresentKeys(user_env, bmin, bmax, gsize,
                               has_tags, has_features, has_locs, has_envs)
    IN  [k \in ToSet(SignalKeys) |-> IF k \in present THEN F64Hundredths(bw[k]) ELSE FZero]

\* _dynamic_weights as the interpreter computes it, in doubles
_dynamic_weights_f64(bw, user_env, bmin, bmax, gsize, has_tags, has_features, has_locs, has_envs) ==
    LET present == PresentKeys(user_env, bmin, bmax, gsize,
                               has_tags, has_features, has_locs, has_envs)
        vals == [i \in DOMAIN SignalKeys |->
                    IF SignalKeys[i] \in present
                    THEN F64Hundredths(bw[SignalKeys[i]]) ELSE FZero]
    IN  IF present # {}
        THEN The({ IF ~IsZero(total)
                   THEN [k \in ToSet(SignalKeys) |->
                           IF k \in present THEN FDiv(F64Hundredths(bw[k]), total)
                           ELSE FZero]
                   ELSE [k \in ToSet(SignalKeys) |->
                           IF k \in present
                           THEN FDiv(FOne, F64FromInt(Cardinality(present)))
                           ELSE FZero]
                   : total \in {FSum(vals)} })
        ELSE [k \in ToSet(SignalKeys) |-> FDiv(FOne, F64FromInt(6))]

\* ------------------------------------------------------------------ inputs
\* the texts the bounded inputs are built from
t_beach == <<"b","e","a","c","h">>
t_Beach == <<"B","e","a","c","h">>
t_mountain == <<"m","o","u","n","t","a","i","n">>
t_city == <<"c","i","t","y">>
t_Miami == <<"M","i","a","m","i">>
t_Banff == <<"B","a","n","f","f">>
t_MiamiBeach == <<"M","i","a","m","i"," ","B","e","a","c","h">>
t_condo == <<"c","o","n","d","o">>
t_hot_tub == <<"h","o","t"," ","t","u","b">>
t_sea_quiet == <<"s","e","a",","," ","q","u","i","e","t">>
t_blank == <<" "," ">>
t_marks == <<"!","?">>
t_pool == <<"p","o","o","l">>
t_miami == <<"m","i","a","m","i">>
t_Sea == <<"S","e","a">>
t_quiet == <<"q","u","i","e","t">>
t_sp7 == <<" ","7">>
t_7sp == <<"7"," ">>

AllColumns ==
    {"property_id", "location", "environment", "property_type", "nightly_price",
     "features", "tags", "min_guests", "max_guests", "__fulltext__"}

\* PropertyManager._normalize: the __fulltext__ column
Fulltext(location, environment, property_type, features, tags) ==
    Lower(location \o <<" ">> \o environment \o <<" ">> \o property_type
          \o <<" ">> \o features \o <<" ">> \o tags)

MkRow(id, location, environment, property_type, price, features, tags, lo, hi) ==
    [property_id |-> id, location |-> location, environment |-> environment,
     property_type |-> property_type, nightly_price |-> price,
     features |-> features, tags |-> tags, min_guests |-> lo, max_guests |-> hi,
     __fulltext__ |-> Fulltext(location, environment, property_type, features, tags)]

RowA == MkRow(PInt(1), t_Miami, t_beach, <<>>, 100, <<>>, <<>>, 2, 4)
RowB == MkRow(PInt(2), t_Banff, t_mountain, <<>>, 500, <<>>, <<>>, 6, 8)
RowC == MkRow(PInt(3), t_Miami, t_beach, <<>>, 150, <<>>, <<>>, 2, 4)
RowD == MkRow(PStr(t_sp7), t_MiamiBeach, t_Beach, t_condo, 140, t_hot_tub, t_sea_quiet, 5, 6)
RowF == MkRow(PInt(5), <<>>, t_city, <<>>, 0, t_pool, <<>>, 2, 0)

RowPool == {RowA, RowB, RowC, RowD, RowF}

\* a DataFrame: its columns and its rows in index order; df = None is isNone
Table(rows) == [isNone |-> FALSE, columns |-> AllColumns, rows |-> rows]
NoneTable == [isNone |-> TRUE, columns |-> {}, rows |-> <<>>]

\* the same table without some columns
DropColumns(t, cols) ==
    [isNone |-> FALSE, columns |-> t.columns \ cols,
     rows |-> [i \in DOMAIN t.rows |->
                 [c \in (DOMAIN t.rows[i]) \ cols |-> t.rows[i][c]]]]

Injective(f) == \A i, j \in DOMAIN f : f[i] = f[j] => i = j

RowSeqs == UNION {{q \in [1..n -> RowPool] : Injective(q)} : n \in 0..MaxRows}

ScenarioTable == Table(<<RowA, RowB, RowC>>)

Catalogs ==
    {NoneTable, ScenarioTable}
    \cup {Table(q) : q \in RowSeqs}
    \cup {DropColumns(Table(<<RowA, RowD>>), {"property_id", "__fulltext__"}),
          DropColumns(Table(<<RowA>>), {"nightly_price"}),
          DropColumns(Table(<<RowA>>), {"location"}),
          DropColumns(Table(<<>>), {"nightly_price", "location", "min_guests"})}

Users ==
    {[environment |-> e, budget_min |-> b[1], budget_max |-> b[2], group_size |-> g] :
        e \in {<<>>, t_beach}, b \in {<<0, 0>>, <<80, 200>>}, g \in {0, 2}}
    \cup {[environment |-> NoneText, budget_min |-> 200, budget_max |-> 80, group_size |-> 4],
          [environment |-> t_blank, budget_min |-> 100, budget_max |-> 100, group_size |-> -1],
          [environment |-> t_blank, budget_min |-> 0, budget_max |-> 0, group_size |-> 0],
          [environment |-> t_marks, budget_min |-> 80, budget_max |-> 200, group_size |-> 2],
          [environment |-> t_Beach, budget_min |-> 0, budget_max |-> 0, group_size |-> 5,
           location |-> t_miami]}

\* llm_hints: None, or a dict from some of the hint keys to lists of texts
HintDict(dict) == [isNone |-> FALSE, dict |-> dict]
Hints(tags, features, locations, environments) ==
    HintDict([tags |-> tags, features |-> features,
              locations |-> locations, environments |-> environments])
NoHints == [isNone |-> TRUE, dict |-> <<>>]
EmptyHints == Hints(<<>>, <<>>, <<>>, <<>>)

\* llm_ids: None, or a list of ints, strs and Nones
IdList(ids) == [isNone |-> FALSE, ids |-> ids]
NoIds == [isNone |-> TRUE, ids |-> <<>>]
EmptyIds == IdList(<<>>)
SomeIds == IdList(<<PInt(1), PStr(t_7sp), PInt(99), PNone>>)

\* what one LLM answer, or none, gives recommend: <<llm_hints, llm_ids>>
LlmChoices ==
    {<<NoHints, NoIds>>, <<EmptyHints, EmptyIds>>, <<NoHints, SomeIds>>,
     <<HintDict([tags |-> <<t_pool, <<>>>>]), NoIds>>,
     <<Hints(<<>>, <<>>, <<t_miami>>, <<>>), IdList(<<PInt(99)>>)>>,
     <<Hints(<<t_quiet>>, <<t_hot_tub>>, <<t_Banff>>, <<t_Sea>>), SomeIds>>}

EnvOnlyWeights ==
    [env |-> 100, budget |-> 0, group |-> 0, tag_feature |-> 0, location |-> 0, llm_sim |-> 0]

\* Recommender(top_k, base_weights)
Recommenders ==
    {[top_k |-> 5, base_weights |-> DefaultBaseWeights],
     [top_k |-> 1, base_weights |-> DefaultBaseWeights],
     [top_k |-> 2, base_weights |-> EnvOnlyWeights]}

\* ------------------------------------------------------------------ Recommender.recommend
\* recommend, "Unpack user prefs" and "Unpack LLM hints"
UserEnv(u) == OrEmpty(u.environment)
\* hints = llm_hints or {};  [t for t in (hints.get(key) or []) if t]
HintList(h, key) ==
    LET hints == IF h.isNone THEN <<>> ELSE h.dict
    IN  Truthy(IF key \in DOMAIN hints THEN hints[key] ELSE <<>>)
HintTags(h) == HintList(h, "tags")
HintFeats(h) == HintList(h, "features")
HintLocs(h) == HintList(h, "locations")
HintEnvs(h) == HintList(h, "environments")

\* variant: the ids compared without .strip()
IdSet_unstripped(ids) == {Str(ids[i]) : i \in {j \in DOMAIN ids : ids[j].t # "none"}}

\* set(str(x).strip() for x in llm_ids if x is not None)
IdSet(ids) == {Strip(Str(ids[i])) : i \in {j \in DOMAIN ids : ids[j].t # "none"}}

\* if llm_ids and "property_id" in d.columns
IdsUsed(table, ids) == ~ids.isNone /\ ids.ids # <<>> /\ "property_id" \in table.columns

\* the llm_id_hit column of one row
IdHit(row, table, ids) ==
    IF IdsUsed(table, ids)
    THEN (IF Strip(Str(row.property_id)) \in IdSet(ids.ids) THEN 1 ELSE 0)
    ELSE 0

\* variant: a hint counts as present when its key is in the dict
CallWeights_keys(bw, u, h) ==
    _dynamic_weights(bw, UserEnv(u), u.budget_min, u.budget_max, u.group_size,
                     ~h.isNone /\ "tags" \in DOMAIN h.dict,
                     ~h.isNone /\ "features" \in DOMAIN h.dict,
                     ~h.isNone /\ "locations" \in DOMAIN h.dict,
                     ~h.isNone /\ "environments" \in DOMAIN h.dict)

\* the weights recommend asks _dynamic_weights for
CallWeights(bw, u, h) ==
    _dynamic_weights(bw, UserEnv(u), u.budget_min, u.budget_max, u.group_size,
                     HintTags(h) # <<>>, HintFeats(h) # <<>>,
                     HintLocs(h) # <<>>, HintEnvs(h) # <<>>)

\* the same call, in doubles
CallWeightsF64(bw, u, h) ==
    _dynamic_weights_f64(bw, UserEnv(u), u.budget_min, u.budget_max, u.group_size,
                         HintTags(h) # <<>>, HintFeats(h) # <<>>,
                         HintLocs(h) # <<>>, HintEnvs(h) # <<>>)

\* the blended score plus the additive id boost, as the numerator over 100 * Wt.den
FitScore(Wt, sc) ==
    100 * ( Wt.num["env"]         * sc.env_score
          + Wt.num["budget"]      * sc.budget_score
          + Wt.num["group"]       * sc.group_score
          + Wt.num["tag_feature"] * sc.tag_feature_score
          + Wt.num["location"]    * sc.location_score
          + Wt.num["llm_sim"]     * sc.llm_similarity_score )
    + id_boost_weight * Wt.den * sc.llm_id_hit * SCALE

\* the score columns recommend adds to row i of the table
SubScores(table, i, u, h, ids) ==
    LET row == table.rows[i]
    IN  [idx                  |-> i,
         env_score            |-> _env_score(row, UserEnv(u), HintEnvs(h)),
         budget_score         |-> _budget_score(row.nightly_price, u.budget_min, u.budget_max),
         group_score          |-> _group_score(row, u.group_size),
         tag_feature_score    |-> _tag_feature_score(row, HintTags(h), HintFeats(h)),
         location_score       |-> _location_score(row.location, HintLocs(h)),
         llm_similarity_score |-> _llm_similarity(row, HintTags(h), HintFeats(h), HintEnvs(h)),
         llm_id_hit           |-> IdHit(row, table, ids)]

ScoredRow(table, i, u, h, ids, Wt) ==
    LET sc == SubScores(table, i, u, h, ids)
    IN  [idx                  |-> sc.idx,
         env_score            |-> sc.env_score,
         budget_score         |-> sc.budget_score,
         group_score          |-> sc.group_score,
         tag_feature_score    |-> sc.tag_feature_score,
         location_score       |-> sc.location_score,
         llm_similarity_score |-> sc.llm_similarity_score,
         llm_id_hit           |-> sc.llm_id_hit,
         fit_score            |-> FitScore(Wt, sc)]

RECURSIVE ScoredUpTo(_, _, _, _, _, _)
ScoredUpTo(table, n, u, h, ids, Wt) ==
    IF n = 0 THEN <<>>
    ELSE Append(ScoredUpTo(table, n - 1, u, h, ids, Wt), ScoredRow(table, n, u, h, ids, Wt))

\* d.apply(...) over every row, in index order
Scored(table, u, h, ids, Wt) == ScoredUpTo(table, Len(table.rows), u, h, ids, Wt)

Perms(n) == {p \in [1..n -> 1..n] : Injective(p)}

\* variant: the sort without ascending=False
SortOrders_ascending(sc) ==
    {p \in Perms(Len(sc)) :
        \A i, j \in 1..Len(sc) : i < j => sc[p[i]].fit_score <= sc[p[j]].fit_score}

\* d.sort_values("fit_score", ascending=False): pandas sorts with its default
\* kind="quicksort", which fixes no order among rows of equal fit_score
SortOrders(sc) ==
    {p \in Perms(Len(sc)) :
        \A i, j \in 1..Len(sc) : i < j => sc[p[i]].fit_score >= sc[p[j]].fit_score}

\* DataFrame.head(n)
DfHead(q, n) ==
    IF n >= 0 THEN SubSeq(q, 1, Min(n, Len(q)))
    ELSE SubSeq(q, 1, Max(0, Len(q) + n))

OutColumns ==
    {"property_id", "location", "environment", "property_type", "nightly_price",
     "min_guests", "max_guests", "features", "tags", "fit_score"}

W0 == [num |-> [k \in ToSet(SignalKeys) |-> 0], den |-> 1]
Wf0 == [k \in ToSet(SignalKeys) |-> FZero]
NoReturn == [kind |-> "none", columns |-> {}, rows |-> <<>>]
EmptyFrame == [kind |-> "table", columns |-> {}, rows |-> <<>>]

\* ------------------------------------------------------------------ alt_recommender1.py
\* Recommender.__init__ defaults of the fixed-weight scorer, in hundredths
AltDefaults == [weights |-> <<40, 40, 20>>, llm_weight |-> 25, loc_weight |-> 15]

\* llm_tags: None, or a list of texts and Nones
TagList(tags) == [isNone |-> FALSE, tags |-> tags]
NoTags == [isNone |-> TRUE, tags |-> <<>>]

\* getattr(user, attr, default)
GetAttr(u, attr, default) == IF attr \in DOMAIN u THEN u[attr] ELSE default

\* _normalize_locations: the user's location attributes that are non-blank
\* strings, stripped
alt_normalize_locations(u) ==
    LET attrs == <<"desired_locations", "locations", "location_preference",
                   "location", "destination", "city", "region">>
        vals  == [i \in DOMAIN attrs |-> GetAttr(u, attrs[i], NoneText)]
    IN  Truthy([i \in DOMAIN attrs |->
                  IF vals[i] = NoneText THEN <<>> ELSE Strip(vals[i])])

\* _location_score of the fixed-weight scorer
alt_location_score(row_loc, wanted_locs) ==
    IF wanted_locs = <<>> THEN 0
    ELSE LET rl == Lower(OrEmpty(row_loc))
         IN  IF rl = <<>> THEN 0
             ELSE IF \E i \in DOMAIN wanted_locs :
                        /\ Strip(Lower(OrEmpty(wanted_locs[i]))) # <<>>
                        /\ Contains(rl, Strip(Lower(OrEmpty(wanted_locs[i]))))
                  THEN SCALE
                  ELSE LET row_tokens  == ToSet(_tok(rl))
                           want_tokens == ToSet(_tok(JoinSp(wanted_locs)))
                       IN  IF row_tokens = {} \/ want_tokens = {} THEN 0
                           ELSE (Cardinality(row_tokens \cap want_tokens) * SCALE)
                                    \div Cardinality(row_tokens \cup want_tokens)

\* env_score: Dice similarity, 0.5 when the user gave no environment
alt_env_score(row, env_tokens) ==
    IF env_tokens = {} THEN SCALE \div 2
    ELSE LET tokens == ToSet(_tok(Get(row, "environment", <<>>))
                             \o _tok(Get(row, "tags", <<>>))
                             \o _tok(Get(row, "property_type", <<>>)))
         IN  IF tokens = {} THEN 0
             ELSE (2 * Cardinality(tokens \cap env_tokens) * SCALE)
                      \div (Cardinality(tokens) + Cardinality(env_tokens))

\* math.exp(-0.5 * z * z) for z = dist / sigma, sigma in hundredths, as
\* floor(x * SCALE); <<dist, sigma, value>> for the arguments the bounded
\* prices and budgets produce below z = 5, where the value drops under 1/SCALE
GaussPoints == {<<80, 4200, 16429>>, <<50, 1500, 389>>, <<40, 1500, 2879>>}
Gauss(dist, sigma100) ==
    IF dist = 0 THEN SCALE
    ELSE IF 100 * dist >= 5 * sigma100 THEN 0
    ELSE (CHOOSE t \in GaussPoints : t[1] = dist /\ t[2] = sigma100)[3]

\* _budget_score of the fixed-weight scorer: 1.0 inside the band, Gaussian
\* falloff from the nearest edge outside it
alt_budget_score(price, ubmin, ubmax) ==
    LET bmin == Min(ubmin, ubmax)
        bmax == Max(ubmin, ubmax)
    IN  IF bmin = 0 /\ bmax = 0 THEN SCALE \div 2
        ELSE IF bmax = bmin
             THEN Gauss(Abs(price - bmin), Max(15 * Max(bmin, 1), 100))
        ELSE IF bmin <= price /\ price <= bmax THEN SCALE
        ELSE Gauss(IF price < bmin THEN bmin - price ELSE price - bmax,
                   Max(35 * (bmax - bmin), 100))

\* math.exp(-dist / 1.5) for dist = 1, 2, ... as floor(x * SCALE)
ExpTauTable ==
    <<51752, 26570, 13641, 7003, 3595, 1846, 947, 486, 249, 128, 65, 33, 17, 8,
      4, 2, 1>>
ExpTau(dist) ==
    IF dist <= 0 THEN SCALE
    ELSE IF dist <= Len(ExpTauTable) THEN ExpTauTable[dist]
    ELSE 0

\* group_score of the fixed-weight scorer
alt_group_score(row, gsize) ==
    LET lo == row.min_guests
        hi == row.max_guests
    IN  IF gsize <= 0 THEN SCALE \div 2
        ELSE IF lo = 0 /\ hi = 0 THEN SCALE \div 2
        ELSE IF lo <= gsize /\ gsize <= (IF hi > 0 THEN hi ELSE gsize) THEN SCALE
        ELSE ExpTau(IF hi > 0 /\ gsize > hi THEN gsize - hi ELSE Max(0, lo - gsize))

\* tags_lower: [t.strip().lower() for t in (llm_tags or []) if isinstance(t, str) and t.strip()]
alt_tags_lower(tags) ==
    LET given == IF tags.isNone THEN <<>> ELSE tags.tags
    IN  Truthy([i \in DOMAIN given |->
                  IF given[i] = NoneText THEN <<>> ELSE Lower(Strip(given[i]))])

\* llm_sim: the share of the requested tags found among the row's tokens
alt_llm_sim(row, tag_set) ==
    IF tag_set = {} THEN 0
    ELSE LET text_tokens == ToSet(_tok(Lower(RowText(row))))
         IN  IF text_tokens = {} THEN 0
             ELSE (Cardinality(text_tokens \cap tag_set) * SCALE)
                      \div Max(Cardinality(tag_set), 1)

\* llm_tag_hit: some requested tag is a substring of fulltext + tags + features
alt_llm_tag_hit(row, tags_lower) ==
    LET blob == Lower(JoinSp(<<Get(row, "__fulltext__", <<>>), Get(row, "tags", <<>>),
                               Get(row, "features", <<>>)>>))
    IN  IF \E i \in DOMAIN tags_lower : Contains(blob, tags_lower[i]) THEN 1 ELSE 0

\* the sum of the base weights of the active base signals
alt_total_base(u) ==
    LET w == AltDefaults.weights
    IN  (IF ToSet(_tok(GetAttr(u, "environment", <<>>))) # {} THEN w[1] ELSE 0)
      + (IF ~(u.budget_min = 0 /\ u.budget_max = 0) THEN w[2] ELSE 0)
      + (IF u.group_size > 0 THEN w[3] ELSE 0)

\* fit_score's denominator: 100 * total_base, or 100 with no active base signal
alt_fit_den(u) == 100 * (IF alt_total_base(u) > 0 THEN alt_total_base(u) ELSE 1)

\* fit_score = base_score + llm_w_eff * llm_similarity + loc_w_eff * location
\* + llm_boost, as the numerator over alt_fit_den
alt_fit_score(u, sc, has_tags, loc_active) ==
    LET w  == AltDefaults.weights
        tb == alt_total_base(u)
        base == IF tb > 0
                THEN 100 * ( (IF ToSet(_tok(GetAttr(u, "environment", <<>>))) # {}
                              THEN w[1] * sc.env_score ELSE 0)
                           + (IF ~(u.budget_min = 0 /\ u.budget_max = 0)
                              THEN w[2] * sc.budget_score ELSE 0)
                           + (IF u.group_size > 0 THEN w[3] * sc.group_score ELSE 0) )
                ELSE 100 * (SCALE \div 2)
        unit == IF tb > 0 THEN tb ELSE 1
    IN  base + unit * ( (IF has_tags THEN AltDefaults.llm_weight * sc.llm_similarity_score
                         ELSE 0)
                      + (IF loc_active THEN AltDefaults.loc_weight * sc.location_score
                         ELSE 0)
                      + 10 * sc.llm_tag_hit * SCALE
                      + 15 * sc.llm_id_hit * SCALE )

\* the score columns the fixed-weight recommend adds to row i of the table
alt_sub_scores(table, i, u, tags, ids) ==
    LET row == table.rows[i]
        tl  == alt_tags_lower(tags)
    IN  [idx                  |-> i,
         env_score            |-> alt_env_score(row, ToSet(_tok(GetAttr(u, "environment", <<>>)))),
         budget_score         |-> alt_budget_score(row.nightly_price, u.budget_min, u.budget_max),
         group_score          |-> alt_group_score(row, u.group_size),
         location_score       |-> alt_location_score(Get(row, "location", <<>>),
                                                     alt_normalize_locations(u)),
         llm_similarity_score |-> alt_llm_sim(row, ToSet(tl)),
         llm_tag_hit          |-> alt_llm_tag_hit(row, tl),
         llm_id_hit           |-> IdHit(row, table, ids)]

alt_scored_row(table, i, u, tags, ids) ==
    LET sc == alt_sub_scores(table, i, u, tags, ids)
    IN  [idx                  |-> sc.idx,
         env_score            |-> sc.env_score,
         budget_score         |-> sc.budget_score,
         group_score          |-> sc.group_score,
         location_score       |-> sc.location_score,
         llm_similarity_score |-> sc.llm_similarity_score,
         llm_tag_hit          |-> sc.llm_tag_hit,
         llm_id_hit           |-> sc.llm_id_hit,
         fit_score            |-> alt_fit_score(u, sc, alt_tags_lower(tags) # <<>>,
                                                alt_normalize_locations(u) # <<>>)]

RECURSIVE alt_scored_up_to(_, _, _, _, _)
alt_scored_up_to(table, n, u, tags, ids) ==
    IF n = 0 THEN <<>>
    ELSE Append(alt_scored_up_to(table, n - 1, u, tags, ids),
                alt_scored_row(table, n, u, tags, ids))

alt_scored(table, u, tags, ids) == alt_scored_up_to(table, Len(table.rows), u, tags, ids)

\* the numeric columns recommend reads with d.get(col, 0): on a table without
\* one, pd.to_numeric(0) is a plain number and .fillna raises AttributeError
AltNumericColumns == {"nightly_price", "min_guests", "max_guests"}

\* the llm_tags argument a caller of the fixed-weight API builds from hints
AltTagsOf(h) ==
    IF h.isNone THEN NoTags
    ELSE TagList(IF "tags" \in DOMAIN h.dict THEN h.dict["tags"] ELSE <<>>)

\* variant: without the "df is None" half of the guard, len(None) raises
AltOutcome_unguarded(table) ==
    IF ~table.isNone /\ Len(table.rows) = 0 THEN "empty"
    ELSE IF table.isNone \/ ~(AltNumericColumns \subseteq table.columns) THEN "raised"
    ELSE "table"

\* how recommend(user, df, llm_tags, llm_ids) of the fixed-weight scorer ends
AltOutcome(table) ==
    IF table.isNone \/ Len(table.rows) = 0 THEN "empty"
    ELSE IF ~(AltNumericColumns \subseteq table.columns) THEN "raised"
    ELSE "table"

\* the frame it returns from the sorted scored rows q
AltFrame(table, q, k) ==
    [kind |-> "table",
     columns |-> OutColumns \cap (table.columns \cup {"fit_score"}),
     rows |-> DfHead([i \in DOMAIN q |-> [idx |-> q[i].idx, fit_score |-> q[i].fit_score]], k)]

\* ------------------------------------------------------------------ smart_search.py
\* CANONICAL_TAGS, in the order the dict lists them: <<canonical tag, aliases>>
CANONICAL_TAGS ==
    <<
    <<<<"b","e","a","c","h">>,
      {<<"s","e","a">>,
       <<"s","e","a","s","i","d","e">>,
       <<"o","c","e","a","n">>,
       <<"s","h","o","r","e">>,
       <<"c","o","a","s","t">>,
       <<"b","e","a","c","h","f","r","o","n","t">>,
       <<"b","e","a","c","h","s","i","d","e">>}>>,
    <<<<"m","o","u","n","t","a","i","n">>,
      {<<"a","l","p","s">>,
       <<"a","l","p","i","n","e">>,
       <<"p","e","a","k">>,
       <<"s","u","m","m","i","t">>,
       <<"m","o","u","n","t","a","i","n","s">>,
       <<"h","i","l","l">>,
       <<"h","i","l","l","s","i","d","e">>}>>,
    <<<<"c","i","t","y">>,
      {<<"d","o","w","n","t","o","w","n">>,
       <<"u","r","b","a","n">>,
       <<"c","e","n","t","r","a","l">>,
       <<"m","e","t","r","o","p","o","l","i","t","a","n">>,
       <<"m","e","t","r","o">>}>>,
    <<<<"c","a","b","i","n">>,
      {<<"c","h","a","l","e","t">>,
       <<"l","o","d","g","e">>,
       <<"h","u","t">>,
       <<"c","o","t","t","a","g","e">>}>>,
    <<<<"a","p","a","r","t","m","e","n","t">>,
      {<<"f","l","a","t">>,
       <<"c","o","n","d","o">>,
       <<"s","u","i","t","e">>}>>,
    <<<<"p","o","o","l">>,
      {<<"s","w","i","m","m","i","n","g">>,
       <<"s","w","i","m","m","i","n","g","p","o","o","l">>,
       <<"p","l","u","n","g","e">>}>>,
    <<<<"h","o","t"," ","t","u","b">>,
      {<<"j","a","c","u","z","z","i">>,
       <<"s","p","a">>}>>,
    <<<<"w","i","f","i">>,
      {<<"w","i","-","f","i">>,
       <<"i","n","t","e","r","n","e","t">>}>>
    >>

\* canonical tag i of the alias table together with its aliases
Terms(i) == {CANONICAL_TAGS[i][1]} \cup CANONICAL_TAGS[i][2]

\* re.sub(r"\s+", " ", t): each run of whitespace becomes one space
RECURSIVE CollapseSpaces(_)
CollapseSpaces(s) ==
    IF s = <<>> THEN <<>>
    ELSE IF IsSpace(s[1])
         THEN (IF Len(s) > 1 /\ IsSpace(s[2]) THEN CollapseSpaces(Tail(s))
                                              ELSE <<" ">> \o CollapseSpaces(Tail(s)))
         ELSE <<s[1]>> \o CollapseSpaces(Tail(s))

\* normalize_token(t): lower, strip, replace what is not kept, collapse spaces
normalize_token(t) == CollapseSpaces(ReplaceOther(Strip(Lower(OrEmpty(t)))))

\* s.split(" ") with the empty pieces dropped
RECURSIVE SplitOnSpace(_, _, _)
SplitOnSpace(s, i, cur) ==
    IF i > Len(s)
    THEN (IF cur = <<>> THEN <<>> ELSE <<cur>>)
    ELSE IF s[i] = " "
         THEN (IF cur = <<>> THEN SplitOnSpace(s, i + 1, <<>>)
                             ELSE <<cur>> \o SplitOnSpace(s, i + 1, <<>>))
         ELSE SplitOnSpace(s, i + 1, Append(cur, s[i]))

\* tokenize(s)
tokenize(s) == SplitOnSpace(normalize_token(s), 1, <<>>)

\* variant: the overlap as a share of the first set
jaccard_of_first(A, B) ==
    IF A = {} /\ B = {} THEN 0
    ELSE IF A = {} THEN 0
    ELSE (Cardinality(A \cap B) * SCALE) \div Cardinality(A)

\* jaccard(a, b): A, B = set(a or []), set(b or [])
jaccard(A, B) ==
    IF A = {} /\ B = {} THEN 0
    ELSE (Cardinality(A \cap B) * SCALE) \div Cardinality(A \cup B)

\* alias_expand: the loop over CANONICAL_TAGS.items(), entry i onwards
RECURSIVE alias_expand_from(_, _)
alias_expand_from(expanded, i) ==
    IF i > Len(CANONICAL_TAGS) THEN expanded
    ELSE IF CANONICAL_TAGS[i][1] \in expanded \/ CANONICAL_TAGS[i][2] \cap expanded # {}
         THEN alias_expand_from(expanded \cup {CANONICAL_TAGS[i][1]} \cup CANONICAL_TAGS[i][2],
                                i + 1)
         ELSE alias_expand_from(expanded, i + 1)

\* variant: one step only, an alias adds its canonical tag and a canonical tag
\* adds its aliases
alias_expand_one_step(tokens) ==
    ToSet(tokens)
    \cup UNION {IF CANONICAL_TAGS[i][1] \in ToSet(tokens) THEN CANONICAL_TAGS[i][2]
                ELSE IF CANONICAL_TAGS[i][2] \cap ToSet(tokens) # {}
                     THEN {CANONICAL_TAGS[i][1]}
                     ELSE {} : i \in DOMAIN CANONICAL_TAGS}

\* alias_expand(tokens), as the set the returned list holds
alias_expand(tokens) == alias_expand_from(ToSet(tokens), 1)

\* SmartSearch.__init__: the text columns joined with " | ", then normalized
RECURSIVE JoinBar(_)
JoinBar(l) ==
    IF l = <<>> THEN <<>>
    ELSE IF Len(l) = 1 THEN l[1]
    ELSE l[1] \o <<" ", "|", " ">> \o JoinBar(Tail(l))

SearchColumns == <<"location", "type", "features", "tags", "description">>

RECURSIVE SearchParts(_, _, _)
SearchParts(row, columns, i) ==
    IF i > Len(SearchColumns) THEN <<>>
    ELSE IF SearchColumns[i] \in columns
         THEN <<OrEmpty(row[SearchColumns[i]])>> \o SearchParts(row, columns, i + 1)
         ELSE SearchParts(row, columns, i + 1)

\* SmartSearch(properties_df).df: the copy with its own __fulltext__ column
SmartSearch(table) ==
    [isNone |-> FALSE,
     columns |-> table.columns \cup {"__fulltext__"},
     rows |-> [i \in DOMAIN table.rows |->
                 [c \in (DOMAIN table.rows[i]) \cup {"__fulltext__"} |->
                    IF c = "__fulltext__"
                    THEN normalize_token(JoinBar(SearchParts(table.rows[i], table.columns, 1)))
                    ELSE table.rows[i][c]]]]

\* find_candidates: the score of one row of the corpus against the query
semantic_score(query, row) ==
    jaccard(alias_expand(tokenize(query)),
            alias_expand(tokenize(normalize_token(row["__fulltext__"]))))

\* find_candidates(self, query, top_k=50)
DefaultTopK == 50

\* find_candidates: top_k = max(1, min(top_k, max(1, len(self.df))))
BoundedTopK(k, n) == Max(1, Min(k, Max(1, n)))

\* variant: the sort without ascending=False
SemanticOrders_ascending(scored) ==
    {p \in Perms(Len(scored)) :
        \A i, j \in 1..Len(scored) :
            i < j => scored[p[i]].semantic_score <= scored[p[j]].semantic_score}

\* find_candidates: scored.sort_values("semantic_score", ascending=False), whose
\* default quicksort fixes no order among rows of equal score
SemanticOrders(scored) ==
    {p \in Perms(Len(scored)) :
        \A i, j \in 1..Len(scored) :
            i < j => scored[p[i]].semantic_score >= scored[p[j]].semantic_score}

\* find_candidates: scored = self.df.copy() with its semantic_score column
ScoredCorpus(ss, query) ==
    [i \in DOMAIN ss.rows |->
       [c \in (DOMAIN ss.rows[i]) \cup {"semantic_score"} |->
          IF c = "semantic_score" THEN semantic_score(query, ss.rows[i])
          ELSE ss.rows[i][c]]]

\* find_candidates: the frame returned when the sort leaves scored in order p
SearchFrame(ss, scored, p, k) ==
    [isNone |-> FALSE,
     columns |-> ss.columns \cup {"semantic_score"},
     rows |-> DfHead([i \in DOMAIN scored |-> scored[p[i]]],
                     BoundedTopK(k, Len(scored)))]

\* find_candidates(query, top_k): the frames it can return
find_candidates(ss, query, k) ==
    {SearchFrame(ss, ScoredCorpus(ss, query), p, k) :
        p \in SemanticOrders(ScoredCorpus(ss, query))}

\* ------------------------------------------------------------------ LLMHelper.py
\* A Python value search can return: a dict (its keys, and the values under
\* "error", "tags" and "property_ids") or a value that is no dict.
PyDict(keys, error, tags, property_ids) ==
    [t |-> "dict", keys |-> keys, error |-> error, tags |-> tags, property_ids |-> property_ids]
PyList == [t |-> "list", keys |-> {}, error |-> "", tags |-> <<>>, property_ids |-> <<>>]

\* {"error": error, "details": ...} and {"error": error, "raw": ...}
ErrorDetails(error) == PyDict({"error", "details"}, error, <<>>, <<>>)
ErrorRaw(error) == PyDict({"error", "raw"}, error, <<>>, <<>>)

\* how a call ends: with a value, or with an exception leaving it
Returns(v) == [kind |-> "value", v |-> v, exc |-> ""]
Raises(exc) == [kind |-> "raised", v |-> PyList, exc |-> exc]
NoCall == [kind |-> "none", v |-> PyList, exc |-> ""]

\* The text of a model answer, one element per piece: "x" a character of
\* prose, "{" "}" "," themselves, "t" the member "tags": ["pool"], "p" the
\* member "property_ids": [1], "a" the key "a": before a nested value, and
\* "l" the list ["pool"].
\* json.loads recurses once per nested object and raises RecursionError past
\* the interpreter's limit, which JsonDepthLimit stands for.
JsonDepthLimit == 2

Parsed(next, v) == [kind |-> "ok", next |-> next, v |-> v]
JSONDecodeError == [kind |-> "JSONDecodeError", next |-> 0, v |-> PyList]
RecursionError == [kind |-> "RecursionError", next |-> 0, v |-> PyList]

\* the dict a JSON object with the member keys acc decodes to
ObjectOf(acc) ==
    PyDict(acc, "",
           IF "tags" \in acc THEN <<t_pool>> ELSE <<>>,
           IF "property_ids" \in acc THEN <<PInt(1)>> ELSE <<>>)

RECURSIVE ParseValue(_, _, _)
RECURSIVE ParseMembers(_, _, _, _, _)
RECURSIVE ParseAfterMember(_, _, _, _)

\* the decoder at position i expecting a value, depth objects deep
ParseValue(s, i, depth) ==
    IF i > Len(s) THEN JSONDecodeError
    ELSE IF s[i] = "l" THEN Parsed(i + 1, PyList)
    ELSE IF s[i] = "{"
         THEN (IF depth > JsonDepthLimit THEN RecursionError
               ELSE ParseMembers(s, i + 1, depth, {}, TRUE))
    ELSE JSONDecodeError

\* inside an object at position i: a member, or "}" right after "{"
ParseMembers(s, i, depth, acc, first) ==
    IF i > Len(s) THEN JSONDecodeError
    ELSE IF s[i] = "}" THEN (IF first THEN Parsed(i + 1, ObjectOf(acc)) ELSE JSONDecodeError)
    ELSE IF s[i] = "t" THEN ParseAfterMember(s, i + 1, depth, acc \cup {"tags"})
    ELSE IF s[i] = "p" THEN ParseAfterMember(s, i + 1, depth, acc \cup {"property_ids"})
    ELSE IF s[i] = "a"
         THEN LET inner == ParseValue(s, i + 1, depth + 1)
              IN  IF inner.kind # "ok" THEN inner
                  ELSE ParseAfterMember(s, inner.next, depth, acc \cup {"a"})
    ELSE JSONDecodeError

\* after a member: "," and another member, or the closing "}"
ParseAfterMember(s, i, depth, acc) ==
    IF i > Len(s) THEN JSONDecodeError
    ELSE IF s[i] = "}" THEN Parsed(i + 1, ObjectOf(acc))
    ELSE IF s[i] = "," THEN ParseMembers(s, i + 1, depth, acc, FALSE)
    ELSE JSONDecodeError

\* json.loads(s): the whole text must be one value
json_loads(s) ==
    LET r == ParseValue(s, 1, 1)
    IN  IF r.kind = "ok" /\ r.next # Len(s) + 1 THEN JSONDecodeError ELSE r

\* msg.find("{") and msg.rfind("}"), 1-based, 0 for Python's -1
Find(msg, c) ==
    IF c \in Range(msg) THEN CHOOSE i \in DOMAIN msg : msg[i] = c /\ \A j \in 1..(i - 1) : msg[j] # c
    ELSE 0
RFind(msg, c) ==
    IF c \in Range(msg)
    THEN CHOOSE i \in DOMAIN msg : msg[i] = c /\ \A j \in (i + 1)..Len(msg) : msg[j] # c
    ELSE 0

\* _post_and_parse, "Loose extraction if model included extra text"
loose_extraction(msg) ==
    IF Find(msg, "{") # 0 /\ RFind(msg, "}") # 0 /\ RFind(msg, "}") > Find(msg, "{")
    THEN LET r == json_loads(SubSeq(msg, Find(msg, "{"), RFind(msg, "}")))
         IN  IF r.kind = "ok" THEN Returns(r.v)
             ELSE IF r.kind = "JSONDecodeError"
                  THEN Returns(ErrorRaw("Model returned non-JSON content"))
             ELSE Raises(r.kind)
    ELSE Returns(ErrorRaw("Model returned non-JSON content"))

\* _post_and_parse, "Try strict JSON parse first", for a str msg
parse_content(msg) ==
    LET r == json_loads(msg)
    IN  IF r.kind = "ok" THEN Returns(r.v)
        ELSE IF r.kind = "JSONDecodeError" THEN loose_extraction(msg)
        ELSE Returns(ErrorDetails("JSON parse error"))

\* The HTTP exchange as requests.post and r.json() show it: post raising, the
\* status code (0: none), whether the body parses as JSON, and the parsed body.
\* The body is a dict or a list; "choices" is missing or a list of choices;
\* a choice is a dict or a str; its message is missing or has a content, which
\* is None, a str or a JSON object.
ContentNone == [t |-> "none", v |-> <<>>]
ContentStr(v) == [t |-> "str", v |-> v]
ContentObject == [t |-> "dict", v |-> <<>>]
Choice(content) == [t |-> "dict", has_message |-> TRUE, content |-> content]
ChoiceNoMessage == [t |-> "dict", has_message |-> FALSE, content |-> ContentNone]
ChoiceStr == [t |-> "str", has_message |-> FALSE, content |-> ContentNone]
Body(choices) == [t |-> "dict", has_choices |-> TRUE, choices |-> choices]
BodyNoChoices == [t |-> "dict", has_choices |-> FALSE, choices |-> <<>>]
BodyList == [t |-> "list", has_choices |-> FALSE, choices |-> <<>>]
PostRaises == [raised |-> TRUE, status_code |-> 0, json |-> FALSE, data |-> BodyList]
Response(status_code, data) ==
    [raised |-> FALSE, status_code |-> status_code, json |-> TRUE, data |-> data]
ResponseNotJson(status_code) ==
    [raised |-> FALSE, status_code |-> status_code, json |-> FALSE, data |-> BodyList]

\* _post_and_parse, "Extract model message content": msg, None when the
\* extraction raises
MessageContent(data) ==
    IF data.t # "dict" THEN ContentNone
    ELSE IF data.choices[1].t # "dict" THEN ContentNone
    ELSE IF ~data.choices[1].has_message THEN ContentNone
    ELSE data.choices[1].content

\* f"HTTP {r.status_code}" for the status codes of the exchanges modelled
HttpError(code) == IF code = 429 THEN "HTTP 429" ELSE "HTTP 500"

\* _post_and_parse(payload, expect_json=True) of a helper against an exchange
_post_and_parse(helper, payload_is_dict, reply) ==
    IF ~payload_is_dict THEN Returns(ErrorDetails("Invalid request payload"))
    ELSE IF helper.api_key = <<>> \/ ~helper.headers THEN Returns(ErrorDetails("Missing API key"))
    ELSE IF reply.raised THEN Returns(ErrorDetails("Request failed"))
    ELSE IF reply.status_code = 0 THEN Returns(ErrorDetails("No HTTP response"))
    ELSE IF reply.status_code # 200 THEN Returns(ErrorDetails(HttpError(reply.status_code)))
    ELSE IF ~reply.json THEN Returns(ErrorDetails("Invalid JSON from API"))
    ELSE IF reply.data.t = "dict" /\ (~reply.data.has_choices \/ reply.data.choices = <<>>)
         THEN Returns(ErrorDetails("Empty response"))
    ELSE IF MessageContent(reply.data).t = "none"
            \/ (MessageContent(reply.data).t = "str" /\ MessageContent(reply.data).v = <<>>)
         THEN Returns(ErrorDetails("No content in response"))
    ELSE IF MessageContent(reply.data).t # "str" THEN Returns(ErrorDetails("JSON parse error"))
    ELSE parse_content(MessageContent(reply.data).v)

\* LLMHelper.__init__: api_key, and headers only when there is a key
LLMHelper(api_key) == [api_key |-> api_key, headers |-> api_key # <<>>]

\* search(user_prompt): the payload it builds is a dict
search(helper, user_prompt, reply) == _post_and_parse(helper, TRUE, reply)

\* ------------------------------------------------------------------ app.py, main.py: the LLM call and its callers
t_key == <<"k">>
t_sea_view == <<"S","e","a"," ","v","i","e","w">>
t_paren == <<"(">>

\* a JSON object nested n objects below the outer one
RECURSIVE Nest(_)
Nest(n) == IF n = 0 THEN <<"{", "}">> ELSE <<"{", "a">> \o Nest(n - 1) \o <<"}">>

\* model answers that are JSON
JsonContents ==
    {<<"{", "t", ",", "p", "}">>, <<"{", "t", "}">>, <<"{", "p", "}">>, <<"{", "}">>, <<"l">>,
     Nest(JsonDepthLimit - 1)}

\* model answers that json.loads rejects: prose, prose around an object,
\* braces the wrong way round, an unclosed object, an object holding prose,
\* a trailing comma, and prose before an object nested past the limit;
\* and that object alone, which is JSON the decoder gives up on
OtherContents ==
    {<<"x">>, <<"x", "{", "t", ",", "p", "}", "x">>, <<"x", "{", "}">>, <<"}", "x", "{">>,
     <<"{", "t">>, <<"x", "{", "x", "}">>, <<"{", "t", ",", "}">>,
     <<"x">> \o Nest(JsonDepthLimit), Nest(JsonDepthLimit)}

Answer(content) == Response(200, Body(<<Choice(content)>>))

\* the exchanges the helper can meet
Replies ==
    {PostRaises, Response(0, BodyNoChoices), Response(429, BodyNoChoices),
     ResponseNotJson(500), ResponseNotJson(200),
     Response(200, BodyList), Response(200, BodyNoChoices), Response(200, Body(<<>>)),
     Response(200, Body(<<ChoiceStr>>)), Response(200, Body(<<ChoiceNoMessage>>)),
     Answer(ContentNone), Answer(ContentStr(<<>>)), Answer(ContentObject)}
    \cup {Answer(ContentStr(c)) : c \in JsonContents \cup OtherContents}

\* the "Find Stays" form: loc and freeform (the rest is the user of the call)
Forms == {[loc |-> l, freeform |-> f] : l \in {<<>>, t_miami, t_paren},
                                         f \in {<<>>, t_pool, t_sea_view}}

\* the values the form's number and text inputs give the temporary User
FindUsers ==
    {[environment |-> e, budget_min |-> b[1], budget_max |-> b[2], group_size |-> g] :
        e \in {<<>>, t_beach}, b \in {<<0, 0>>, <<80, 200>>}, g \in {0, 2}}

\* df_all: a catalog PropertyManager loaded, which has every column
FindCatalogs == {Table(<<>>), Table(<<RowA, RowD>>), Table(<<RowF, RowB>>), ScenarioTable}

\* the rows of a frame that a boolean mask keeps, in order
RECURSIVE SelectRows(_, _, _)
SelectRows(rows, keep, i) ==
    IF i > Len(rows) THEN <<>>
    ELSE IF i \in keep THEN <<rows[i]>> \o SelectRows(rows, keep, i + 1)
    ELSE SelectRows(rows, keep, i + 1)

\* candidates[candidates["location"].str.lower().str.contains(loc.lower(), na=False)]
\* inside try/except: a loc that is no regular expression filters nothing;
\* the other locs of the model are plain words, matched as substrings
LocFilter(table, loc) ==
    IF loc = <<>> \/ "(" \in Range(loc) THEN table
    ELSE [isNone |-> FALSE, columns |-> table.columns,
          rows |-> SelectRows(table.rows,
                              {i \in DOMAIN table.rows :
                                  Contains(Lower(table.rows[i].location), Lower(loc))}, 1)]

\* _llm_from_context(): None without a key, else a helper holding the key
HelperInContext(l) == l.api_key # <<>>

\* resp.get(key, []) or [] after isinstance(resp, dict), for "tags" and "property_ids"
RespTags(r) ==
    IF r.kind = "value" /\ r.v.t = "dict" /\ "tags" \in r.v.keys THEN r.v.tags ELSE <<>>
RespIds(r) ==
    IF r.kind = "value" /\ r.v.t = "dict" /\ "property_ids" \in r.v.keys
    THEN r.v.property_ids ELSE <<>>

NoForm == [loc |-> <<>>, freeform |-> <<>>]
NoLlm == [api_key |-> <<>>, reply |-> PostRaises]
NoCandidates == NoneTable
NoCallArgs == [fn |-> "none"]
NoCorpus == NoneTable
NoOut == [kind |-> "none"]
NoUser == [environment |-> <<>>, budget_min |-> 0, budget_max |-> 0, group_size |-> 0]

\* {"tags": [], "property_ids": []}
EmptyAnswer == PyDict({"tags", "property_ids"}, "", <<>>, <<>>)


\* ------------------------------------------------------------------ Recommender.recommend and the fixed-weight recommend as calls
Init ==
    /\ pc = "ready"
    /\ \E r \in Recommenders : top_k = r.top_k /\ base_weights = r.base_weights
    /\ user \in Users
    /\ df \in Catalogs
    /\ \E l \in LlmChoices : llm_hints = l[1] /\ llm_ids = l[2]
    /\ d = <<>>
    /\ W = W0
    /\ Wf = Wf0
    /\ ret = NoReturn
    /\ llm = NoLlm
    /\ form = NoForm
    /\ resp = NoCall
    /\ candidates = NoCandidates
    /\ find_tags = NoTags
    /\ canonical_tags = CANONICAL_TAGS
    /\ corpus = NoCorpus
    /\ users = NoUsers /\ current_username = NoneText /\ users_csv = {}
    /\ call = NoCallArgs
    /\ out = NoOut

\* recommend: "guard against empty dataframe"
RecommendEmpty ==
    /\ pc = "ready"
    /\ df.isNone \/ Len(df.rows) = 0
    /\ pc' = "returned"
    /\ ret' = EmptyFrame
    /\ UNCHANGED <<top_k, base_weights, user, df, llm_hints, llm_ids, d, W, Wf,
                   llm, form, resp, candidates, find_tags, call, out, canonical_tags, corpus,
                   users, current_username, users_csv>>

\* recommend: d["nightly_price"] or d["location"] on a table without the column
RecommendKeyError ==
    /\ pc = "ready"
    /\ ~df.isNone /\ Len(df.rows) > 0
    /\ "nightly_price" \notin df.columns \/ "location" \notin df.columns
    /\ pc' = "raised"
    /\ UNCHANGED <<top_k, base_weights, user, df, llm_hints, llm_ids, d, W, Wf, ret,
                   llm, form, resp, candidates, find_tags, call, out, canonical_tags, corpus,
                   users, current_username, users_csv>>

\* recommend: score every row, blend, sort, keep the columns, head(top_k)
RecommendRank ==
    /\ pc = "ready"
    /\ ~df.isNone /\ Len(df.rows) > 0
    /\ "nightly_price" \in df.columns /\ "location" \in df.columns
    /\ \E Wt \in {CallWeights(base_weights, user, llm_hints)} :
         \E sc \in {Scored(df, user, llm_hints, llm_ids, Wt)} :
           \E p \in SortOrders(sc) :
             /\ W' = Wt
             /\ d' = [i \in DOMAIN sc |-> sc[p[i]]]
             /\ ret' = [kind |-> "table",
                        columns |-> OutColumns \cap (df.columns \cup {"fit_score"}),
                        rows |-> DfHead([i \in DOMAIN sc |->
                                           [idx |-> sc[p[i]].idx,
                                            fit_score |-> sc[p[i]].fit_score]], top_k)]
    /\ pc' = "returned"
    /\ UNCHANGED <<top_k, base_weights, user, df, llm_hints, llm_ids, Wf,
                   llm, form, resp, candidates, find_tags, call, out, canonical_tags, corpus,
                   users, current_username, users_csv>>

\* the fixed-weight recommend: "if df is None or len(df) == 0"
AltRecommendEmpty ==
    /\ pc = "ready"
    /\ AltOutcome(df) = "empty"
    /\ pc' = "alt_returned"
    /\ ret' = EmptyFrame
    /\ UNCHANGED <<top_k, base_weights, user, df, llm_hints, llm_ids, d, W, Wf,
                   llm, form, resp, candidates, find_tags, call, out, canonical_tags, corpus,
                   users, current_username, users_csv>>

\* the fixed-weight recommend on a table without a numeric column
AltRecommendRaise ==
    /\ pc = "ready"
    /\ AltOutcome(df) = "raised"
    /\ pc' = "alt_raised"
    /\ UNCHANGED <<top_k, base_weights, user, df, llm_hints, llm_ids, d, W, Wf, ret,
                   llm, form, resp, candidates, find_tags, call, out, canonical_tags, corpus,
                   users, current_username, users_csv>>

\* the fixed-weight recommend: score every row, blend, sort, head(top_k)
AltRecommendRank ==
    /\ pc = "ready"
    /\ AltOutcome(df) = "table"
    /\ \E sc \in {alt_scored(df, user, AltTagsOf(llm_hints), llm_ids)} :
         \E p \in SortOrders(sc) :
           /\ d' = [i \in DOMAIN sc |-> sc[p[i]]]
           /\ ret' = AltFrame(df, [i \in DOMAIN sc |-> sc[p[i]]], top_k)
    /\ pc' = "alt_returned"
    /\ UNCHANGED <<top_k, base_weights, user, df, llm_hints, llm_ids, W, Wf,
                   llm, form, resp, candidates, find_tags, call, out, canonical_tags, corpus,
                   users, current_username, users_csv>>

Next ==
    \/ RecommendEmpty \/ RecommendKeyError \/ RecommendRank
    \/ AltRecommendEmpty \/ AltRecommendRaise \/ AltRecommendRank

Spec == Init /\ [][Next]_vars

\* ------------------------------------------------------------------ _dynamic_weights on its own
\* every combination of the four hint lists being supplied or not
SignalHints ==
    {Hints(tg, ft, lc, en) : tg \in {<<>>, <<t_pool>>}, ft \in {<<>>, <<t_hot_tub>>},
                             lc \in {<<>>, <<t_miami>>}, en \in {<<>>, <<t_Sea>>}}
    \cup {NoHints}

InitWeights ==
    /\ pc = "ready"
    /\ top_k = 5
    /\ base_weights \in {DefaultBaseWeights, EnvOnlyWeights}
    /\ user \in Users
    /\ df = NoneTable
    /\ llm_hints \in SignalHints
    /\ llm_ids = NoIds
    /\ d = <<>>
    /\ W = W0
    /\ Wf = Wf0
    /\ ret = NoReturn
    /\ llm = NoLlm
    /\ form = NoForm
    /\ resp = NoCall
    /\ candidates = NoCandidates
    /\ find_tags = NoTags
    /\ canonical_tags = CANONICAL_TAGS
    /\ corpus = NoCorpus
    /\ users = NoUsers /\ current_username = NoneText /\ users_csv = {}
    /\ call = NoCallArgs
    /\ out = NoOut

\* recommend, "Dynamic weights": the call of _dynamic_weights and its result
DynamicWeights ==
    /\ pc = "ready"
    /\ W' = CallWeights(base_weights, user, llm_hints)
    /\ Wf' = CallWeightsF64(base_weights, user, llm_hints)
    /\ pc' = "weighted"
    /\ UNCHANGED <<top_k, base_weights, user, df, llm_hints, llm_ids, d, ret,
                   llm, form, resp, candidates, find_tags, call, out, canonical_tags, corpus,
                   users, current_username, users_csv>>

NextWeights == DynamicWeights

SpecWeights == InitWeights /\ [][NextWeights]_vars

\* ------------------------------------------------------------------ the LLM call and tab_find
InitFind ==
    /\ pc = "ready"
    /\ top_k = 5
    /\ base_weights = DefaultBaseWeights
    /\ user \in FindUsers
    /\ df \in FindCatalogs
    /\ llm \in {[api_key |-> k, reply |-> r] : k \in {<<>>, t_key}, r \in Replies}
    /\ form \in Forms
    /\ llm_hints = NoHints
    /\ llm_ids = NoIds
    /\ find_tags = NoTags
    /\ canonical_tags = CANONICAL_TAGS
    /\ corpus = NoCorpus
    /\ users = NoUsers /\ current_username = NoneText /\ users_csv = {}
    /\ call = NoCallArgs
    /\ out = NoOut
    /\ resp = NoCall
    /\ candidates = NoCandidates
    /\ d = <<>>
    /\ W = W0
    /\ Wf = Wf0
    /\ ret = NoReturn

\* LLMHelper.search called on a helper built with the configured key
Search ==
    /\ pc = "ready"
    /\ resp' = search(LLMHelper(llm.api_key), form.freeform, llm.reply)
    /\ pc' = "searched"
    /\ UNCHANGED <<top_k, base_weights, user, df, llm_hints, llm_ids, d, W, Wf, ret,
                   llm, form, candidates, find_tags, call, out, canonical_tags, corpus,
                   users, current_username, users_csv>>

\* main.py's wrapper around LLMHelper.search: an exception becomes empty hints
WrappedSearch ==
    /\ pc = "ready"
    /\ \E r \in {search(LLMHelper(llm.api_key), form.freeform, llm.reply)} :
         resp' = IF r.kind = "raised" THEN Returns(EmptyAnswer) ELSE r
    /\ pc' = "wrapped"
    /\ UNCHANGED <<top_k, base_weights, user, df, llm_hints, llm_ids, d, W, Wf, ret,
                   llm, form, candidates, find_tags, call, out, canonical_tags, corpus,
                   users, current_username, users_csv>>

\* app.py, "Get recommendations": the location pre-filter, the smart search and
\* the LLM call when freeform is given, then rec.recommend on the candidates
TabFind ==
    /\ pc = "ready"
    /\ \E cand \in (IF form.freeform # <<>>
                     THEN find_candidates(SmartSearch(LocFilter(df, form.loc)),
                                          form.freeform, 300)
                     ELSE {LocFilter(df, form.loc)}) :
       \E r \in {IF form.freeform # <<>> /\ HelperInContext(llm)
                  THEN search(LLMHelper(llm.api_key), form.freeform, llm.reply)
                  ELSE NoCall} :
         /\ candidates' = cand
         /\ resp' = r
         /\ find_tags' = TagList(RespTags(r))
         /\ llm_ids' = IdList(RespIds(r))
         /\ IF AltOutcome(cand) = "empty"
            THEN d' = <<>> /\ ret' = EmptyFrame
            ELSE \E sc \in {alt_scored(cand, user, TagList(RespTags(r)), IdList(RespIds(r)))} :
                   \E p \in SortOrders(sc) :
                     /\ d' = [i \in DOMAIN sc |-> sc[p[i]]]
                     /\ ret' = AltFrame(cand, [i \in DOMAIN sc |-> sc[p[i]]], top_k)
    /\ pc' = "found"
    /\ UNCHANGED <<top_k, base_weights, user, df, llm_hints, W, Wf, llm, form, call, out, canonical_tags, corpus,
                   users, current_username, users_csv>>

NextFind == Search \/ WrappedSearch \/ TabFind

SpecFind == InitFind /\ [][NextFind]_vars

\* ------------------------------------------------------------------ the scoring and token functions on their own
\* amounts of money in half units, so that every range has its midpoint
Amounts == {0, 50, 80, 100, 125, 140, 150, 200, 500}

BudgetCalls ==
    {[fn |-> "_budget_score", price |-> p, bmin |-> a, bmax |-> b] :
        p \in Amounts, a \in Amounts, b \in Amounts}

\* every term of the alias table and one word outside it
Vocabulary == UNION {Terms(i) : i \in DOMAIN CANONICAL_TAGS} \cup {t_quiet}

\* token lists of up to MaxTokens words of the vocabulary
TokenLists == UNION {[1..n -> Vocabulary] : n \in 0..MaxTokens}

AliasCalls == {[fn |-> "alias_expand", tokens |-> t] : t \in TokenLists}

\* token lists of a few words, repeated words included
WordLists == UNION {[1..n -> {t_pool, t_beach, t_quiet}] : n \in 0..MaxTokens}

JaccardCalls == {[fn |-> "jaccard", a |-> a, b |-> b] : a \in WordLists, b \in WordLists}

\* strings of up to MaxChars characters: a letter in both cases, a space, a
\* hyphen and a character that the normalizer replaces
Strings == UNION {[1..n -> {"a", "A", " ", "-", "!"}] : n \in 0..MaxChars}

NormalizeCalls == {[fn |-> "normalize_token", x |-> x] : x \in Strings}

FunctionCalls == BudgetCalls \cup AliasCalls \cup JaccardCalls \cup NormalizeCalls

InitFunctions ==
    /\ pc = "ready"
    /\ call \in FunctionCalls
    /\ out = NoOut
    /\ top_k = 5
    /\ base_weights = DefaultBaseWeights
    /\ user = NoUser
    /\ df = NoneTable
    /\ llm_hints = NoHints
    /\ llm_ids = NoIds
    /\ d = <<>>
    /\ W = W0
    /\ Wf = Wf0
    /\ ret = NoReturn
    /\ llm = NoLlm
    /\ form = NoForm
    /\ resp = NoCall
    /\ candidates = NoCandidates
    /\ find_tags = NoTags
    /\ canonical_tags = CANONICAL_TAGS
    /\ corpus = NoCorpus
    /\ users = NoUsers /\ current_username = NoneText /\ users_csv = {}

\* Recommender._budget_score(price, bmin, bmax)
BudgetScore ==
    /\ pc = "ready"
    /\ call.fn = "_budget_score"
    /\ out' = [kind |-> "score",
               value |-> _budget_score(call.price, call.bmin, call.bmax)]
    /\ pc' = "applied"
    /\ UNCHANGED <<top_k, base_weights, user, df, llm_hints, llm_ids, d, W, Wf, ret,
                   llm, form, resp, candidates, find_tags, call, canonical_tags, corpus,
                   users, current_username, users_csv>>

\* a set of tokens as a list
RECURSIVE ListOf(_)
ListOf(S) ==
    IF S = {} THEN <<>>
    ELSE LET x == CHOOSE x \in S : TRUE IN <<x>> \o ListOf(S \ {x})

\* alias_expand(tokens) and alias_expand of the list it returned
AliasExpand ==
    /\ pc = "ready"
    /\ call.fn = "alias_expand"
    /\ \E once \in {alias_expand(call.tokens)} :
         out' = [kind |-> "tokens", value |-> once,
                 again |-> alias_expand(ListOf(once))]
    /\ pc' = "applied"
    /\ UNCHANGED <<top_k, base_weights, user, df, llm_hints, llm_ids, d, W, Wf, ret,
                   llm, form, resp, candidates, find_tags, call, canonical_tags, corpus,
                   users, current_username, users_csv>>

\* jaccard(a, b) of smart_search on the two lists and _jaccard(set(a), set(b))
\* of the Recommender on their sets
Jaccard ==
    /\ pc = "ready"
    /\ call.fn = "jaccard"
    /\ out' = [kind |-> "scores",
               value |-> jaccard(ToSet(call.a), ToSet(call.b)),
               recommender |-> _jaccard(ToSet(call.a), ToSet(call.b))]
    /\ pc' = "applied"
    /\ UNCHANGED <<top_k, base_weights, user, df, llm_hints, llm_ids, d, W, Wf, ret,
                   llm, form, resp, candidates, find_tags, call, canonical_tags, corpus,
                   users, current_username, users_csv>>

\* normalize_token(x) and normalize_token of what it returned
NormalizeToken ==
    /\ pc = "ready"
    /\ call.fn = "normalize_token"
    /\ \E once \in {normalize_token(call.x)} :
         out' = [kind |-> "text", value |-> once, again |-> normalize_token(once)]
    /\ pc' = "applied"
    /\ UNCHANGED <<top_k, base_weights, user, df, llm_hints, llm_ids, d, W, Wf, ret,
                   llm, form, resp, candidates, find_tags, call, canonical_tags, corpus,
                   users, current_username, users_csv>>

NextFunctions == BudgetScore \/ AliasExpand \/ Jaccard \/ NormalizeToken

SpecFunctions == InitFunctions /\ [][NextFunctions]_vars

\* ------------------------------------------------------------------ SmartSearch.find_candidates as a call
t_jacuzzi == <<"j","a","c","u","z","z","i">>

SearchCatalogs ==
    {Table(<<>>), Table(<<RowA, RowD, RowF>>), Table(<<RowF, RowB>>), ScenarioTable}

t_miami_pool == <<"m","i","a","m","i"," ","p","o","o","l">>

SearchQueries ==
    {<<>>, t_pool, t_sea_view, t_beach, t_city, t_condo, t_jacuzzi, t_miami_pool}

\* the default top_k, what tab_find passes, and small, zero and negative ones
TopKs == {-1, 0, 1, 2, 50, 300}

\* a catalog of one row whose text is y
TermTable(y) == Table(<<MkRow(PInt(9), <<>>, <<>>, <<>>, 0, y, <<>>, 0, 0)>>)

SearchCall(query, k) == [fn |-> "find_candidates", query |-> query, top_k |-> k]

\* every catalog, query and top_k above; and, for every two terms x and y of
\* one alias group, the query x over the one-row catalog of text y
SearchInputs ==
    {[df |-> t, call |-> SearchCall(q, k)] :
        t \in SearchCatalogs, q \in SearchQueries, k \in TopKs}
    \cup UNION {{[df |-> TermTable(y), call |-> SearchCall(x, 50)] :
                   x \in Terms(i), y \in Terms(i)} : i \in DOMAIN CANONICAL_TAGS}

InitSearch ==
    /\ pc = "ready"
    /\ \E s \in SearchInputs : df = s.df /\ call = s.call
    /\ out = NoOut
    /\ top_k = 5
    /\ base_weights = DefaultBaseWeights
    /\ user = NoUser
    /\ llm_hints = NoHints
    /\ llm_ids = NoIds
    /\ d = <<>>
    /\ W = W0
    /\ Wf = Wf0
    /\ ret = NoReturn
    /\ llm = NoLlm
    /\ form = NoForm
    /\ resp = NoCall
    /\ candidates = NoCandidates
    /\ find_tags = NoTags
    /\ canonical_tags = CANONICAL_TAGS
    /\ corpus = NoCorpus
    /\ users = NoUsers /\ current_username = NoneText /\ users_csv = {}

\* SmartSearch(df).find_candidates(query, top_k): d keeps the index and score
\* of every row of the sorted frame, candidates is the frame returned
FindCandidates ==
    /\ pc = "ready"
    /\ call.fn = "find_candidates"
    /\ \E ss \in {SmartSearch(df)} :
         \E sc \in {ScoredCorpus(ss, call.query)} :
           \E p \in SemanticOrders(sc) :
             /\ d' = [i \in DOMAIN sc |->
                        [idx |-> p[i], semantic_score |-> sc[p[i]].semantic_score]]
             /\ candidates' = SearchFrame(ss, sc, p, call.top_k)
    /\ pc' = "applied"
    /\ UNCHANGED <<top_k, base_weights, user, df, llm_hints, llm_ids, W, Wf, ret,
                   llm, form, resp, find_tags, call, out, canonical_tags, corpus,
                   users, current_username, users_csv>>

NextSearch == FindCandidates

SpecSearch == InitSearch /\ [][NextSearch]_vars

\* ------------------------------------------------------------------ sequences of calls on one catalog
CallCatalogs ==
    {Table(<<>>), Table(<<RowA, RowD>>), Table(<<RowF, RowB>>),
     DropColumns(Table(<<RowA>>), {"nightly_price"})}

CallUsers ==
    {[environment |-> <<>>, budget_min |-> 0, budget_max |-> 0, group_size |-> 2],
     [environment |-> t_beach, budget_min |-> 80, budget_max |-> 200, group_size |-> 2]}

CallLlmChoices ==
    {<<NoHints, NoIds>>,
     <<Hints(<<t_quiet>>, <<t_hot_tub>>, <<t_Banff>>, <<t_Sea>>), SomeIds>>}

CallQueries == {<<>>, t_pool, t_sea_view}

\* variant: the method works on the caller's frame itself
CallerTable_shared(table, work) == work

\* d = df.copy(), df = properties_df.copy(), scored = self.df.copy(): the
\* method changes its working copy, the frame it was given stays as it was
CallerTable(table, work) == table

\* the working frame d of recommend after the sort: the rows in ranked order
\* and the score columns added
WorkingFrame(table, q) ==
    [isNone |-> FALSE,
     columns |-> table.columns \cup {"env_score", "budget_score", "group_score",
                                     "tag_feature_score", "location_score",
                                     "llm_similarity_score", "llm_id_hit", "fit_score"},
     rows |-> [i \in DOMAIN q |-> table.rows[q[i].idx]]]

InitCalls ==
    /\ pc = "ready"
    /\ \E r \in Recommenders : top_k = r.top_k /\ base_weights = r.base_weights
    /\ df \in CallCatalogs
    /\ canonical_tags = CANONICAL_TAGS
    /\ corpus = NoCorpus
    /\ users = NoUsers /\ current_username = NoneText /\ users_csv = {}
    /\ user = NoUser
    /\ llm_hints = NoHints
    /\ llm_ids = NoIds
    /\ call = NoCallArgs
    /\ out = NoOut
    /\ d = <<>>
    /\ W = W0
    /\ Wf = Wf0
    /\ ret = NoReturn
    /\ llm = NoLlm
    /\ form = NoForm
    /\ resp = NoCall
    /\ candidates = NoCandidates
    /\ find_tags = NoTags

\* SmartSearch(df): the object keeps a copy of the catalog with its fulltext
NewSmartSearch ==
    /\ corpus' = SmartSearch(df)
    /\ df' = CallerTable(df, SmartSearch(df))
    /\ call' = [fn |-> "SmartSearch"]
    /\ pc' = "built"
    /\ UNCHANGED <<top_k, base_weights, user, llm_hints, llm_ids, d, W, Wf, ret,
                   llm, form, resp, candidates, find_tags, out, canonical_tags,
                   users, current_username, users_csv>>

\* one more find_candidates(query, top_k) on the SmartSearch object
CallFindCandidates ==
    /\ ~corpus.isNone
    /\ \E q \in CallQueries, k \in {1, DefaultTopK} :
         \E sc \in {ScoredCorpus(corpus, q)} :
           \E p \in SemanticOrders(sc) :
             /\ call' = SearchCall(q, k)
             /\ d' = [i \in DOMAIN sc |->
                        [idx |-> p[i], semantic_score |-> sc[p[i]].semantic_score]]
             /\ candidates' = SearchFrame(corpus, sc, p, k)
             /\ corpus' = CallerTable(corpus, SearchFrame(corpus, sc, p, Len(sc)))
    /\ pc' = "applied"
    /\ UNCHANGED <<top_k, base_weights, user, df, llm_hints, llm_ids, W, Wf, ret,
                   llm, form, resp, find_tags, out, canonical_tags,
                   users, current_username, users_csv>>

\* one more recommend(user, df, llm_hints=..., llm_ids=...) on the Recommender
CallRecommend ==
    /\ \E u \in CallUsers, l \in CallLlmChoices :
         /\ user' = u /\ llm_hints' = l[1] /\ llm_ids' = l[2]
         /\ call' = [fn |-> "recommend"]
         /\ IF df.isNone \/ Len(df.rows) = 0
            THEN /\ pc' = "returned" /\ ret' = EmptyFrame
                 /\ d' = <<>> /\ W' = W0 /\ df' = df
            ELSE IF "nightly_price" \notin df.columns \/ "location" \notin df.columns
            THEN /\ pc' = "raised" /\ ret' = NoReturn
                 /\ d' = <<>> /\ W' = W0 /\ df' = df
            ELSE \E Wt \in {CallWeights(base_weights, u, l[1])} :
                   \E sc \in {Scored(df, u, l[1], l[2], Wt)} :
                     \E p \in SortOrders(sc) :
                       /\ pc' = "returned"
                       /\ W' = Wt
                       /\ d' = [i \in DOMAIN sc |-> sc[p[i]]]
                       /\ df' = CallerTable(df, WorkingFrame(df, [i \in DOMAIN sc |-> sc[p[i]]]))
                       /\ ret' = [kind |-> "table",
                                  columns |-> OutColumns \cap (df.columns \cup {"fit_score"}),
                                  rows |-> DfHead([i \in DOMAIN sc |->
                                                     [idx |-> sc[p[i]].idx,
                                                      fit_score |-> sc[p[i]].fit_score]], top_k)]
    /\ UNCHANGED <<top_k, base_weights, Wf, llm, form, resp, candidates, find_tags,
                   out, canonical_tags, corpus,
                   users, current_username, users_csv>>

NextCalls == NewSmartSearch \/ CallFindCandidates \/ CallRecommend

SpecCalls == InitCalls /\ [][NextCalls]_vars

\* ------------------------------------------------------------------ PropertyManager: loading the catalog
\* the digits of a text as a number
RECURSIVE ParseDigits(_, _)
ParseDigits(s, acc) ==
    IF s = <<>> THEN acc
    ELSE ParseDigits(Tail(s),
                     10 * acc + (CHOOSE k \in 0..9 : Digits[k + 1] = s[1]))

\* pd.to_numeric(cell, errors="coerce") followed by fillna(0).astype(int), for a
\* cell that is an int, None, or a text of digits or with a letter in it
to_numeric_int(cell) ==
    IF cell.t = "int" THEN cell.n
    ELSE IF cell.t = "none" THEN 0
    ELSE IF cell.v # <<>> /\ \A i \in DOMAIN cell.v : cell.v[i] \in Range(Digits)
         THEN ParseDigits(cell.v, 0)
    ELSE 0

\* PropertyManager._normalize on the frame read_csv gave: every column ensured,
\* numbers coerced, texts filled, __fulltext__ built
PropertyManager_normalize(table) ==
    [isNone |-> FALSE,
     columns |-> AllColumns,
     rows |-> [i \in DOMAIN table.rows |->
        LET row == table.rows[i]
            text(c) == OrEmpty(Get(row, c, <<>>))
        IN  [property_id |-> PInt(to_numeric_int(Get(row, "property_id", PInt(0)))),
             location |-> text("location"),
             environment |-> text("environment"),
             property_type |-> text("property_type"),
             nightly_price |-> Get(row, "nightly_price", 0),
             features |-> text("features"),
             tags |-> text("tags"),
             min_guests |-> Get(row, "min_guests", 0),
             max_guests |-> Get(row, "max_guests", 0),
             __fulltext__ |-> Fulltext(text("location"), text("environment"),
                                       text("property_type"), text("features"),
                                       text("tags"))]]]

t_P101 == <<"P","-","1","0","1">>
t_P102 == <<"P","-","1","0","2">>
t_12 == <<"1","2">>

\* the property_id column as read_csv gives it: all ints, or texts when some
\* id is not a number
IdColumns ==
    {q \in [1..2 -> {PInt(1), PInt(2), PInt(12)}] : Injective(q)}
    \cup {q \in [1..2 -> {PStr(t_P101), PStr(t_P102), PStr(t_12)}] : Injective(q)}

\* the frame read_csv gives for a file of two rows with the ids q
RawTable(q, dropped) ==
    DropColumns(Table(<<[RowA EXCEPT !.property_id = q[1]],
                        [RowD EXCEPT !.property_id = q[2]]>>),
                dropped \cup {"__fulltext__"})

RawTables ==
    {RawTable(q, c) : q \in IdColumns, c \in {{}, {"tags", "max_guests"}}}
    \cup {DropColumns(Table(<<>>), {"__fulltext__"})}

InitLoad ==
    /\ pc = "raw"
    /\ df \in RawTables
    /\ call = [fn |-> "PropertyManager", raw |-> df]
    /\ llm_ids \in {NoIds, IdList(<<PInt(0)>>)}
                    \cup {IdList(<<df.rows[i].property_id>>) : i \in DOMAIN df.rows}
    /\ llm_hints = NoHints
    /\ user \in CallUsers
    /\ top_k = 5
    /\ base_weights = DefaultBaseWeights
    /\ canonical_tags = CANONICAL_TAGS
    /\ corpus = NoCorpus
    /\ users = NoUsers /\ current_username = NoneText /\ users_csv = {}
    /\ out = NoOut
    /\ d = <<>>
    /\ W = W0
    /\ Wf = Wf0
    /\ ret = NoReturn
    /\ llm = NoLlm
    /\ form = NoForm
    /\ resp = NoCall
    /\ candidates = NoCandidates
    /\ find_tags = NoTags

\* PropertyManager(filepath): read_csv, then _normalize
Normalize ==
    /\ pc = "raw"
    /\ df' = PropertyManager_normalize(df)
    /\ pc' = "ready"
    /\ UNCHANGED <<top_k, base_weights, user, llm_hints, llm_ids, d, W, Wf, ret,
                   llm, form, resp, candidates, find_tags, call, out,
                   canonical_tags, corpus,
                   users, current_username, users_csv>>

\* the catalog is loaded, then ranked with the ids the LLM suggested
NextLoad == Normalize \/ RecommendEmpty \/ RecommendRank

SpecLoad == InitLoad /\ [][NextLoad]_vars

\* ------------------------------------------------------------------ UserManager
\* the accounts: users maps a username to its record, users_csv holds the
\* rows _save wrote.  A text is a sequence of characters; None is NoneText.
MinPasswordLen == 8

IsUpper(c) == c \in Range(UpperLetters)
IsLower(c) == c \in Range(LowerLetters)
IsDigit(c) == c \in Range(Digits)
IsAlnum(c) == IsUpper(c) \/ IsLower(c) \/ IsDigit(c)

\* _hash_pw(password, salt): SHA-256 of salt + password, taken as free of
\* collisions: two digests are equal exactly when the hashed texts are
_hash_pw(password, salt) == [sha256 |-> salt \o password]

\* _validate_password(pw, username) -> (ok, msg)
_validate_password(pw, username) ==
    IF Len(pw) < MinPasswordLen
    THEN [ok |-> FALSE, msg |-> "Password must be at least 8 characters."]
    ELSE IF username # <<>> /\ Contains(Lower(pw), Lower(username))
    THEN [ok |-> FALSE, msg |-> "Password must not contain your username."]
    ELSE IF ~(/\ \E i \in DOMAIN pw : IsUpper(pw[i])
              /\ \E i \in DOMAIN pw : IsLower(pw[i])
              /\ \E i \in DOMAIN pw : IsDigit(pw[i])
              /\ \E i \in DOMAIN pw : ~IsAlnum(pw[i]))
    THEN [ok |-> FALSE,
          msg |-> "Include upper/lowercase letters, a digit, and a special character."]
    ELSE [ok |-> TRUE, msg |-> ""]

\* dict operations on users
Put(m, k, rec) == [x \in (DOMAIN m) \cup {k} |-> IF x = k THEN rec ELSE m[x]]
Pop(m, k) == [x \in (DOMAIN m) \ {k} |-> m[x]]

\* the record sign up stores
NewRecord(username, first_name, salt, pw) ==
    [username |-> username, first_name |-> first_name, salt |-> salt,
     password_hash |-> _hash_pw(pw, salt)]

\* _save writing every row with an empty first name
_save_blank_first_name(m) ==
    {[username |-> m[k].username, first_name |-> <<>>,
      salt |-> m[k].salt, password_hash |-> m[k].password_hash] :
     k \in DOMAIN m}

\* _save(): the file is replaced by one row per record of users
_save(m) == {[username |-> m[k].username, first_name |-> m[k].first_name,
              salt |-> m[k].salt, password_hash |-> m[k].password_hash] :
             k \in DOMAIN m}

\* get_current_user(): None unless current_username is truthy and has a record
get_current_user(m, cur) ==
    IF cur = NoneText \/ cur = <<>> \/ cur \notin DOMAIN m
    THEN [isNone |-> TRUE, username |-> <<>>, name |-> <<>>]
    ELSE [isNone |-> FALSE, username |-> m[cur].username, name |-> m[cur].first_name]

\* what a handler leaves behind: the three pieces of state and what it printed
Left(m, cur, file, kind, msg) ==
    [users |-> m, current_username |-> cur, users_csv |-> file,
     kind |-> kind, msg |-> msg]

\* sign_up(); the texts are what input() returned at each prompt
sign_up(m, cur, file, username_in, first_in, pw1_in, pw2_in, salt) ==
    LET username == Lower(Strip(username_in))
        pw1 == Strip(pw1_in)
        v == _validate_password(pw1, username)
    IN  IF username = <<>>
        THEN Left(m, cur, file, "rejected", "Username cannot be empty.")
        ELSE IF username \in DOMAIN m
        THEN Left(m, cur, file, "rejected", "That username already exists.")
        ELSE IF ~v.ok
        THEN Left(m, cur, file, "rejected", v.msg)
        ELSE IF pw1 # Strip(pw2_in)
        THEN Left(m, cur, file, "rejected", "Passwords did not match.")
        ELSE LET m1 == Put(m, username, NewRecord(username, Strip(first_in), salt, pw1))
             IN  Left(m1, username, _save(m1), "done", "created and signed in.")

\* sign_in()
sign_in(m, cur, file, username_in, pw_in) ==
    LET username == Lower(Strip(username_in))
    IN  IF username \notin DOMAIN m
        THEN Left(m, cur, file, "rejected", "No such user.")
        ELSE IF _hash_pw(Strip(pw_in), m[username].salt) # m[username].password_hash
        THEN Left(m, cur, file, "rejected", "Incorrect password.")
        ELSE Left(m, username, file, "done", "Signed in.")

\* sign_out()
sign_out(m, cur, file) == Left(m, NoneText, file, "done", "Signed out.")

\* the password part of edit_profile, on the record rec stored under cur
edit_password(m, cur, file, current_pw_in, pw1_in, pw2_in, salt) ==
    LET rec == m[cur]
        new_pw1 == Strip(pw1_in)
        v == _validate_password(new_pw1, cur)
    IN  IF _hash_pw(Strip(current_pw_in), rec.salt) # rec.password_hash
        THEN Left(m, cur, file, "rejected", "Current password is incorrect.")
        ELSE IF ~v.ok
        THEN Left(m, cur, file, "rejected", v.msg)
        ELSE IF new_pw1 # Strip(pw2_in)
        THEN Left(m, cur, file, "rejected", "Passwords did not match.")
        ELSE LET m1 == [m EXCEPT ![cur] = [rec EXCEPT !.salt = salt,
                                  !.password_hash = _hash_pw(new_pw1, salt)]]
             IN  Left(m1, cur, _save(m1), "done", "Password updated.")

\* edit_profile moving the record without writing the new name into it
edit_profile_keeps_record_username(m, cur, file, first_in, username_in, change_pw, current_pw_in, pw1_in, pw2_in, salt) ==
    LET u == get_current_user(m, cur)
        new_first == Strip(first_in)
        new_username == Lower(Strip(username_in))
    IN  IF u.isNone
        THEN Left(m, cur, file, "rejected", "Sign in first.")
        ELSE
        LET rec1 == IF new_first # <<>> THEN [m[cur] EXCEPT !.first_name = new_first]
                                        ELSE m[cur]
            m1 == [m EXCEPT ![cur] = rec1]
            renames == new_username # <<>> /\ new_username # u.username
        IN  IF renames /\ new_username \in DOMAIN m1
            THEN Left(m1, cur, file, "rejected", "That username already exists.")
            ELSE
            LET m2 == IF renames
                      THEN Put(Pop(m1, u.username), new_username,
                               rec1)
                      ELSE m1
                cur2 == IF renames THEN new_username ELSE cur
            IN  IF change_pw
                THEN edit_password(m2, cur2, file, current_pw_in, pw1_in, pw2_in, salt)
                ELSE Left(m2, cur2, _save(m2), "done", "Saved.")

\* edit_profile(): the first name is written into the record, then the record
\* is moved under the new username, then the password is changed, and only the
\* end of the function saves
edit_profile(m, cur, file, first_in, username_in, change_pw, current_pw_in, pw1_in, pw2_in, salt) ==
    LET u == get_current_user(m, cur)
        new_first == Strip(first_in)
        new_username == Lower(Strip(username_in))
    IN  IF u.isNone
        THEN Left(m, cur, file, "rejected", "Sign in first.")
        ELSE
        LET rec1 == IF new_first # <<>> THEN [m[cur] EXCEPT !.first_name = new_first]
                                        ELSE m[cur]
            m1 == [m EXCEPT ![cur] = rec1]
            renames == new_username # <<>> /\ new_username # u.username
        IN  IF renames /\ new_username \in DOMAIN m1
            THEN Left(m1, cur, file, "rejected", "That username already exists.")
            ELSE
            LET m2 == IF renames
                      THEN Put(Pop(m1, u.username), new_username,
                               [rec1 EXCEPT !.username = new_username])
                      ELSE m1
                cur2 == IF renames THEN new_username ELSE cur
            IN  IF change_pw
                THEN edit_password(m2, cur2, file, current_pw_in, pw1_in, pw2_in, salt)
                ELSE Left(m2, cur2, _save(m2), "done", "Saved.")

\* delete_user()
delete_user(m, cur, file, sure_in) ==
    LET u == get_current_user(m, cur)
    IN  IF u.isNone
        THEN Left(m, cur, file, "rejected", "Sign in first.")
        ELSE IF Lower(Strip(sure_in)) # u.username
        THEN Left(m, cur, file, "rejected", "Cancelled.")
        ELSE LET m1 == Pop(m, u.username)
             IN  Left(m1, NoneText, _save(m1), "done", "User deleted.")

\* the "Create account" button of the Account tab; the form is shown while
\* nobody is signed in, and the passwords are taken as typed
tab_account_sign_up(m, cur, file, su_user, su_first, su_pw1, su_pw2, salt) ==
    LET un == Lower(Strip(su_user))
        v == _validate_password(su_pw1, un)
    IN  IF un \in DOMAIN m
        THEN Left(m, cur, file, "rejected", "That username already exists.")
        ELSE IF su_pw1 # su_pw2
        THEN Left(m, cur, file, "rejected", "Passwords did not match.")
        ELSE IF ~v.ok
        THEN Left(m, cur, file, "rejected", v.msg)
        ELSE LET m1 == Put(m, un, NewRecord(un, Strip(su_first), salt, su_pw1))
             IN  Left(m1, un, _save(m1), "done", "created and signed in.")

\* what is typed at the prompts
u_ab == <<"a", "b">>
u_Bob == <<" ", "B", "o", "b">>
n_Al == <<"A", "l">>
pw_ok == <<"X", "y", "1", "2", "3", "4", "5", "!">>
pw_bob == <<"B", "o", "b", "1", "2", "3", "4", "!">>
pw_short == <<"X", "y", "1", "!">>
pw_plain == <<"x", "y", "1", "2", "3", "4", "5", "6">>
UsernameInputs == {<<>>, u_ab, u_Bob}
FirstNameInputs == {<<>>, n_Al}
PasswordInputs == {pw_ok, pw_bob, pw_short, pw_plain}
ConfirmInputs == {pw_ok, pw_bob}
\* secrets.token_hex(16), shortened
Salts == {<<"0", "a">>}

InitUsers ==
    /\ pc = "session"
    /\ users = NoUsers /\ current_username = NoneText /\ users_csv = {}
    /\ call = NoCallArgs
    /\ out = NoOut
    /\ df = NoneTable
    /\ llm_ids = NoIds
    /\ llm_hints = NoHints
    /\ user = NoUser
    /\ top_k = 5
    /\ base_weights = DefaultBaseWeights
    /\ canonical_tags = CANONICAL_TAGS
    /\ corpus = NoCorpus
    /\ d = <<>>
    /\ W = W0
    /\ Wf = Wf0
    /\ ret = NoReturn
    /\ llm = NoLlm
    /\ form = NoForm
    /\ resp = NoCall
    /\ candidates = NoCandidates
    /\ find_tags = NoTags

\* one handler runs from its first prompt to its return
Handler(fn, r) ==
    /\ pc = "session"
    /\ call' = [fn |-> fn]
    /\ users' = r.users
    /\ current_username' = r.current_username
    /\ users_csv' = r.users_csv
    /\ out' = [kind |-> r.kind, msg |-> r.msg]
    /\ UNCHANGED <<pc, top_k, base_weights, user, df, llm_hints, llm_ids, d, W, Wf,
                   ret, llm, form, resp, candidates, find_tags, canonical_tags,
                   corpus>>

SignUp ==
    \E username_in \in UsernameInputs, first_in \in FirstNameInputs,
       pw1_in \in PasswordInputs, pw2_in \in ConfirmInputs, salt \in Salts :
        Handler("sign_up", sign_up(users, current_username, users_csv,
                                   username_in, first_in, pw1_in, pw2_in, salt))

SignIn ==
    \E username_in \in UsernameInputs, pw_in \in ConfirmInputs :
        Handler("sign_in", sign_in(users, current_username, users_csv,
                                   username_in, pw_in))

SignOut == Handler("sign_out", sign_out(users, current_username, users_csv))

EditProfile ==
    \E first_in \in FirstNameInputs, username_in \in UsernameInputs :
        \/ Handler("edit_profile",
                   edit_profile(users, current_username, users_csv, first_in,
                                username_in, FALSE, <<>>, <<>>, <<>>, <<>>))
        \/ \E current_pw_in \in ConfirmInputs, pw1_in \in PasswordInputs,
              pw2_in \in ConfirmInputs, salt \in Salts :
               Handler("edit_profile",
                       edit_profile(users, current_username, users_csv, first_in,
                                    username_in, TRUE, current_pw_in, pw1_in,
                                    pw2_in, salt))

DeleteUser ==
    \E sure_in \in UsernameInputs :
        Handler("delete_user", delete_user(users, current_username, users_csv,
                                           sure_in))

TabAccountSignUp ==
    /\ current_username \in {NoneText, <<>>}
    /\ \E su_user \in UsernameInputs, su_first \in FirstNameInputs,
          su_pw1 \in PasswordInputs, su_pw2 \in ConfirmInputs, salt \in Salts :
           Handler("tab_account", tab_account_sign_up(users, current_username,
                       users_csv, su_user, su_first, su_pw1, su_pw2, salt))

NextUsers == SignUp \/ SignIn \/ SignOut \/ EditProfile \/ DeleteUser \/ TabAccountSignUp

SpecUsers == InitUsers /\ [][NextUsers]_vars

\* ------------------------------------------------------------------ properties
Returned == pc = "returned"
Ranked == pc = "returned" /\ d # <<>>
\* the same for either scorer
AnyReturned == pc \in {"returned", "alt_returned"}
AnyRanked == AnyReturned /\ d # <<>>

\* the original index of every row of d, best first
Ranking == [i \in DOMAIN d |-> d[i].idx]

\* the fit_score recommend gave the row of original index i
FitOf(i) == (CHOOSE r \in Range(d) : r.idx = i).fit_score

\* the candidate row behind row i of d
SourceRow(i) == df.rows[d[i].idx]

ScenarioUser ==
    [environment |-> t_beach, budget_min |-> 80, budget_max |-> 200, group_size |-> 2]

ScenarioCall ==
    /\ df = ScenarioTable
    /\ user = ScenarioUser
    /\ llm_hints = NoHints /\ llm_ids = NoIds
    /\ base_weights = DefaultBaseWeights

\* C1 as stated: in the scenario (A = row 1, B = row 2, C = row 3) recommend
\* ranks A above C above B and fit_score(A) > fit_score(C) > fit_score(B).
C1_AaboveCaboveB ==
    (Returned /\ ScenarioCall) =>
        /\ Ranking = <<1, 3, 2>>
        /\ FitOf(1) > FitOf(3) /\ FitOf(3) > FitOf(2)

\* C1 amended: in the scenario recommend ranks C above A above B, with
\* fit_score(C) > fit_score(A) > fit_score(B), and returns the first top_k of them.
C1_CaboveAaboveB ==
    (Returned /\ ScenarioCall) =>
        /\ Ranking = <<3, 1, 2>>
        /\ FitOf(3) > FitOf(1) /\ FitOf(1) > FitOf(2)
        /\ [i \in DOMAIN ret.rows |-> ret.rows[i].idx] = DfHead(<<3, 1, 2>>, top_k)

C1_Witness == Returned /\ ScenarioCall /\ top_k = 5 /\ Len(ret.rows) = 3

\* the signals the call of _dynamic_weights found present
CallPresent ==
    PresentKeys(UserEnv(user), user.budget_min, user.budget_max, user.group_size,
                HintTags(llm_hints) # <<>>, HintFeats(llm_hints) # <<>>,
                HintLocs(llm_hints) # <<>>, HintEnvs(llm_hints) # <<>>)
\* sum(W.values()) in doubles, and in exact arithmetic as a numerator over W.den
WfSum == FSum([i \in DOMAIN SignalKeys |-> Wf[SignalKeys[i]]])
WNumSum == SumSeq([i \in DOMAIN SignalKeys |-> W.num[SignalKeys[i]]])
\* the doubles next to 1.0: 1 - 2^-53 and 1 + 2^-52
OneBelow == [m |-> PSub(Two53, <<0, 1>>), e |-> -53]
OneAbove == [m |-> PAdd(Two52, <<0, 1>>), e |-> -52]

\* C2 as stated: for every combination of supplied and missing signals the
\* six weights _dynamic_weights returns are non-negative and their sum is
\* exactly 1.0
C2_WeightsSumExactlyOne ==
    pc = "weighted" =>
        /\ \A k \in ToSet(SignalKeys) : W.num[k] >= 0
        /\ W.den > 0
        /\ WfSum = FOne

\* C2, amended: the six weights are non-negative and sum to 1 in exact
\* arithmetic; the sum of the doubles the code returns is 1.0 or one of
\* the two doubles next to it
C2_WeightsSumToOneRounded ==
    pc = "weighted" =>
        /\ \A k \in ToSet(SignalKeys) : W.num[k] >= 0
        /\ W.den > 0
        /\ WNumSum = W.den
        /\ \A k \in ToSet(SignalKeys) : IsZero(Wf[k]) <=> W.num[k] = 0
        /\ WfSum \in {OneBelow, FOne, OneAbove}

\* no signal supplied: six weights of 1/6 whose doubles sum below 1.0
C2_Witness ==
    /\ pc = "weighted"
    /\ CallPresent = {}
    /\ \A k \in ToSet(SignalKeys) : Wf[k] = FDiv(FOne, F64FromInt(6))
    /\ WfSum = OneBelow

\* the inputs of a signal were not supplied in this call
NotSupplied(k) ==
    CASE k = "env"         -> Strip(UserEnv(user)) = <<>> /\ HintEnvs(llm_hints) = <<>>
      [] k = "budget"      -> user.budget_min = 0 /\ user.budget_max = 0
      [] k = "group"       -> user.group_size <= 0
      [] k = "tag_feature" -> HintTags(llm_hints) = <<>> /\ HintFeats(llm_hints) = <<>>
      [] k = "location"    -> HintLocs(llm_hints) = <<>>
      [] k = "llm_sim"     -> /\ HintTags(llm_hints) = <<>> /\ HintFeats(llm_hints) = <<>>
                              /\ HintEnvs(llm_hints) = <<>>

AnyActive == \E k \in ToSet(SignalKeys) : ~NotSupplied(k)

\* row r of d with the sub-score of signal k set to v
WithSubScore(r, k, v) ==
    CASE k = "env"         -> [r EXCEPT !.env_score = v]
      [] k = "budget"      -> [r EXCEPT !.budget_score = v]
      [] k = "group"       -> [r EXCEPT !.group_score = v]
      [] k = "tag_feature" -> [r EXCEPT !.tag_feature_score = v]
      [] k = "location"    -> [r EXCEPT !.location_score = v]
      [] k = "llm_sim"     -> [r EXCEPT !.llm_similarity_score = v]

SubScoreOf(r, k) ==
    CASE k = "env"         -> r.env_score
      [] k = "budget"      -> r.budget_score
      [] k = "group"       -> r.group_score
      [] k = "tag_feature" -> r.tag_feature_score
      [] k = "location"    -> r.location_score
      [] k = "llm_sim"     -> r.llm_similarity_score

\* C3: in a call with at least one active signal, every signal whose input was
\* not supplied has weight 0, and each row's fit_score is the same whatever
\* value that signal's sub-score takes.
C3_InactiveWeightZero ==
    (Ranked /\ AnyActive) =>
        \A k \in ToSet(SignalKeys) :
            NotSupplied(k) =>
                /\ W.num[k] = 0
                /\ \A i \in DOMAIN d : \A v \in {0, SCALE \div 2, SCALE} :
                       FitScore(W, WithSubScore(d[i], k, v)) = d[i].fit_score

C3_Witness ==
    /\ Ranked /\ AnyActive
    /\ \E k \in ToSet(SignalKeys) :
          NotSupplied(k) /\ \E i \in DOMAIN d : SubScoreOf(d[i], k) > 0

\* C4: in either scorer every sub-score of every scored row lies in [0, 1]
\* and llm_id_hit is 0 or 1.
C4_SubScoresInUnitRange ==
    /\ Returned =>
          \A i \in DOMAIN d :
              /\ \A k \in ToSet(SignalKeys) :
                     SubScoreOf(d[i], k) >= 0 /\ SubScoreOf(d[i], k) <= SCALE
              /\ d[i].llm_id_hit \in {0, 1}
    /\ pc = "alt_returned" =>
          \A i \in DOMAIN d :
              /\ \A x \in {d[i].env_score, d[i].budget_score, d[i].group_score,
                            d[i].location_score, d[i].llm_similarity_score} :
                     x >= 0 /\ x <= SCALE
              /\ d[i].llm_id_hit \in {0, 1}

C4_Witness ==
    /\ Ranked
    /\ \E i, j \in DOMAIN d :
          /\ d[i].budget_score = 0 /\ ~NotSupplied("budget")
          /\ SourceRow(i).nightly_price > user.budget_max
          /\ d[j].llm_id_hit = 1

\* the state holds what the call with hints h and ids would compute
SameAsCall(h, ids) ==
    \E Wt \in {CallWeights(base_weights, user, h)} :
      \E sc \in {Scored(df, user, h, ids, Wt)} :
        /\ W = Wt
        /\ \E p \in SortOrders(sc) : d = [i \in DOMAIN sc |-> sc[p[i]]]
        /\ ret.rows = DfHead([i \in DOMAIN d |->
                                [idx |-> d[i].idx, fit_score |-> d[i].fit_score]], top_k)

\* C5: a call with llm_hints=None, llm_ids=None gives what the call with every
\* hint list explicitly empty gives (same rows, order and fit_score), and back.
C5_NoHintsSameAsEmpty ==
    Ranked =>
        /\ (llm_hints = NoHints /\ llm_ids = NoIds) => SameAsCall(EmptyHints, EmptyIds)
        /\ (llm_hints = EmptyHints /\ llm_ids = EmptyIds) => SameAsCall(NoHints, NoIds)

C5_Witness ==
    /\ Ranked /\ llm_hints = NoHints /\ llm_ids = NoIds
    /\ Len(d) > 1 /\ AnyActive

\* ---- C6
\* an answer that is not JSON as a whole but holds an object the loose
\* extraction decodes: search returns that object, so the call did not fail
RecoveredObject(msg) ==
    /\ json_loads(msg).kind = "JSONDecodeError"
    /\ loose_extraction(msg).kind = "value"
    /\ "error" \notin loose_extraction(msg).v.keys

\* the failure outcomes of the LLM call, one disjunct per cause: no API key,
\* request exception or timeout, non-200 status, body that is not JSON, no
\* choices, empty content, model content that is not JSON
LlmFailure ==
    \/ llm.api_key = <<>>
    \/ llm.reply.raised
    \/ llm.reply.status_code # 200
    \/ ~llm.reply.json
    \/ llm.reply.data.t # "dict" \/ ~llm.reply.data.has_choices \/ llm.reply.data.choices = <<>>
    \/ MessageContent(llm.reply.data).t = "none"
    \/ MessageContent(llm.reply.data).t = "str" /\ MessageContent(llm.reply.data).v = <<>>
    \/ MessageContent(llm.reply.data).t # "str"
    \/ /\ json_loads(MessageContent(llm.reply.data).v).kind # "ok"
       /\ ~RecoveredObject(MessageContent(llm.reply.data).v)

\* tab_find went through the LLM call: freeform was given
FindCalledLlm == pc = "found" /\ form.freeform # <<>>

\* the ranking step ran on the candidates: a frame of min(top_k, n) rows
RankingRan ==
    /\ ret.kind = "table"
    /\ Len(ret.rows) = Min(top_k, Len(candidates.rows))
    /\ Len(d) = Len(candidates.rows)

\* C6: for every failure outcome of the LLM call, LLMHelper.search returns a
\* value without raising, the tags and property ids tab_find hands to the
\* recommender are empty lists, and the ranking step still runs.
C6_LlmFailureTolerated ==
    LlmFailure =>
        /\ pc \in {"searched", "wrapped"} => resp.kind = "value"
        /\ pc = "found" =>
             /\ find_tags = TagList(<<>>)
             /\ llm_ids = IdList(<<>>)
             /\ RankingRan

\* C6, the failing state: search called with a key on an answer of prose
\* followed by an object nested past the decoder's limit ends in RecursionError
C6_SearchRaised ==
    /\ pc = "searched"
    /\ LlmFailure
    /\ llm.reply = Answer(ContentStr(<<"x">> \o Nest(JsonDepthLimit)))
    /\ resp = Raises("RecursionError")

\* C6, what does hold: behind tab_find's try/except and behind main.py's
\* wrapper every failure outcome ends in empty hints and a ranking
C6_CallersTolerateFailure ==
    LlmFailure =>
        /\ pc = "wrapped" => resp.kind = "value" /\ RespTags(resp) = <<>> /\ RespIds(resp) = <<>>
        /\ pc = "found" =>
             /\ find_tags = TagList(<<>>)
             /\ llm_ids = IdList(<<>>)
             /\ RankingRan

\* C6, that case reached: tab_find met a failed call and ranked two candidates
C6_CallersWitness ==
    /\ FindCalledLlm
    /\ llm.api_key # <<>>
    /\ LlmFailure
    /\ resp.kind = "raised"
    /\ Len(ret.rows) = 2

\* the number of candidate rows handed to recommend
NCandidates == IF df.isNone THEN 0 ELSE Len(df.rows)

\* C7: recommend (of either scorer) returns exactly min(top_k, number of
\* candidate rows) rows in non-increasing fit_score order, and no row left
\* out scores higher than a returned one.
C7_TopKSortedDescending ==
    AnyReturned =>
        /\ Len(ret.rows) = Min(top_k, NCandidates)
        /\ \A i, j \in DOMAIN ret.rows :
               i < j => ret.rows[i].fit_score >= ret.rows[j].fit_score
        /\ \A i \in DOMAIN d : \A j \in DOMAIN ret.rows :
               i > Len(ret.rows) => d[i].fit_score <= ret.rows[j].fit_score

C7_Witness ==
    /\ Ranked /\ Len(ret.rows) = top_k /\ top_k < Len(d)
    /\ d[Len(d)].fit_score < ret.rows[1].fit_score

\* C8 as stated: rows of equal fit_score come back in the order they had in
\* the candidate set.
C8_TiesKeepInputOrder ==
    Returned =>
        \A i, j \in DOMAIN ret.rows :
            (i < j /\ ret.rows[i].fit_score = ret.rows[j].fit_score)
                => ret.rows[i].idx < ret.rows[j].idx

\* row and id have the same trimmed string form
IdMatches(row, x) == x.t # "none" /\ Strip(Str(row.property_id)) = Strip(Str(x))

\* the elements of llm_ids that match some candidate row
MatchingIds ==
    SelectSeq(llm_ids.ids, LAMBDA x : \E i \in DOMAIN df.rows : IdMatches(df.rows[i], x))

\* C9: llm_id_hit is 1 exactly for the rows whose trimmed str(property_id)
\* equals the trimmed str of some (non-None) element of llm_ids, else 0; the
\* ids that match no row change no row's llm_id_hit or fit_score.
C9_IdHitIffTrimmedMatch ==
    (Ranked /\ "property_id" \in df.columns) =>
        /\ \A i \in DOMAIN d :
               d[i].llm_id_hit =
                   IF \E j \in DOMAIN llm_ids.ids : IdMatches(SourceRow(i), llm_ids.ids[j])
                   THEN 1 ELSE 0
        /\ \E sc \in {Scored(df, user, llm_hints, IdList(MatchingIds), W)} :
               Range(sc) = Range(d)

C9_Witness ==
    /\ Ranked /\ "property_id" \in df.columns
    /\ \E i, k \in DOMAIN d :
          /\ SourceRow(i).property_id = PStr(t_sp7) /\ d[i].llm_id_hit = 1
          /\ d[k].llm_id_hit = 0
    /\ Len(MatchingIds) < Len(llm_ids.ids)

\* C10 as stated: in either scorer, for every row and group_size > 0,
\* group_score is 1.0 at group_size = min_guests and at group_size =
\* max_guests, and below 1.0 at group_size = max_guests + 1.
C10_GroupBoundaryEveryRow ==
    (AnyRanked /\ user.group_size > 0) =>
        \A i \in DOMAIN d :
            /\ user.group_size = SourceRow(i).min_guests => d[i].group_score = SCALE
            /\ user.group_size = SourceRow(i).max_guests => d[i].group_score = SCALE
            /\ user.group_size = SourceRow(i).max_guests + 1 => d[i].group_score < SCALE

\* C10 amended: the same for every row with min_guests <= max_guests.
C10_GroupBoundaryOrderedRow ==
    (AnyRanked /\ user.group_size > 0) =>
        \A i \in DOMAIN d :
            SourceRow(i).min_guests <= SourceRow(i).max_guests =>
                /\ user.group_size = SourceRow(i).min_guests => d[i].group_score = SCALE
                /\ user.group_size = SourceRow(i).max_guests => d[i].group_score = SCALE
                /\ user.group_size = SourceRow(i).max_guests + 1 => d[i].group_score < SCALE

C10_Witness ==
    /\ Ranked /\ user.group_size > 0
    /\ \E i, j \in DOMAIN d :
          /\ SourceRow(i).min_guests <= SourceRow(i).max_guests
          /\ user.group_size = SourceRow(i).max_guests + 1 /\ d[i].group_score < SCALE
          /\ user.group_size = SourceRow(j).min_guests /\ d[j].group_score = SCALE

\* ---- C11
Applied(fn) == pc = "applied" /\ call.fn = fn

\* a budget range is supplied unless both ends are 0
BudgetSupplied == ~(call.bmin = 0 /\ call.bmax = 0)

AtMidpoint == 2 * call.price = call.bmin + call.bmax

\* C11: for every supplied budget range, the price at the midpoint of the
\* range gets budget_score 1.0, and no price gets a budget_score above that.
C11_MidpointScoresHighest ==
    (Applied("_budget_score") /\ BudgetSupplied) =>
        /\ out.value <= SCALE
        /\ AtMidpoint => out.value = SCALE

C11_Witness ==
    /\ Applied("_budget_score") /\ BudgetSupplied /\ AtMidpoint
    /\ call.bmin < call.bmax /\ out.value = SCALE

\* ---- C12
\* the user of the call with budget_min and budget_max exchanged
SwappedUser ==
    [user EXCEPT !.budget_min = user.budget_max, !.budget_max = user.budget_min]

\* the state holds what the same call for user u would compute: weights, every
\* sub-score and fit_score of every row, the ranking and the returned rows
SameAsCallFor(u) ==
    IF pc = "returned"
    THEN \E Wt \in {CallWeights(base_weights, u, llm_hints)} :
           \E sc \in {Scored(df, u, llm_hints, llm_ids, Wt)} :
             /\ W = Wt
             /\ \E p \in SortOrders(sc) : d = [i \in DOMAIN sc |-> sc[p[i]]]
    ELSE \E sc \in {alt_scored(df, u, AltTagsOf(llm_hints), llm_ids)} :
             \E p \in SortOrders(sc) : d = [i \in DOMAIN sc |-> sc[p[i]]]

\* C12: exchanging budget_min and budget_max changes nothing: every row gets
\* the same budget_score, and recommend returns the same ranking with the same
\* fit_score values, in both scorers.
C12_BudgetOrderIrrelevant ==
    AnyRanked =>
        /\ SameAsCallFor(SwappedUser)
        /\ \A i \in DOMAIN d :
              d[i].budget_score =
                (IF pc = "returned"
                 THEN _budget_score(SourceRow(i).nightly_price,
                                    user.budget_max, user.budget_min)
                 ELSE alt_budget_score(SourceRow(i).nightly_price,
                                       user.budget_max, user.budget_min))

C12_Witness ==
    /\ Ranked /\ user.budget_min > user.budget_max /\ user.budget_max > 0
    /\ \E i \in DOMAIN d : d[i].budget_score > 0 /\ d[i].budget_score < SCALE
    /\ Len(d) > 1

\* ---- C13
\* C13 as stated: with no budget range given (both ends absent or 0),
\* budget_score is 0 for every row.
C13_NoBudgetScoresZero ==
    (Applied("_budget_score") /\ ~BudgetSupplied) => out.value = 0

\* C13, amended: with no budget range given (both ends absent or 0),
\* budget_score is the neutral 0.5 for every row.
C13_NoBudgetScoresHalf ==
    (Applied("_budget_score") /\ ~BudgetSupplied) => out.value = SCALE \div 2

C13_Witness ==
    /\ Applied("_budget_score") /\ ~BudgetSupplied
    /\ call.price > 0 /\ out.value = SCALE \div 2

\* ---- C14
\* the candidate set is None or has no rows
NoCandidateRows == df.isNone \/ Len(df.rows) = 0

\* C14: recommend called with a candidate set that is None or has no rows
\* returns an empty result and raises no error, whatever the user and the
\* hints, in both scorers.
C14_EmptyCandidatesEmptyResult ==
    (NoCandidateRows /\ pc # "ready") =>
        /\ AnyReturned
        /\ ret = EmptyFrame

C14_Witness ==
    /\ NoCandidateRows /\ AnyReturned /\ ret = EmptyFrame
    /\ ~llm_hints.isNone /\ llm_ids # NoIds
    /\ ~NotSupplied("budget")

\* ---- C15
ExpectedColumns ==
    {"property_id", "location", "environment", "property_type", "nightly_price",
     "features", "tags", "min_guests", "max_guests"}

\* the call was made on a table with rows that lacks an expected column
LacksColumn == ~NoCandidateRows /\ ~(ExpectedColumns \subseteq df.columns)

\* C15: recommend never raises when the candidate table lacks any of the
\* expected columns (a missing text column counts as empty text, a missing
\* numeric column as 0): every such call returns a ranking.
C15_MissingColumnsTolerated ==
    (LacksColumn /\ pc # "ready") => AnyRanked

\* a call on a table without nightly_price that ended in KeyError
C15_RecommendRaised ==
    /\ LacksColumn /\ pc = "raised"
    /\ "nightly_price" \notin df.columns

\* ---- C16
\* the number of rows find_candidates returned
NReturned == Len(candidates.rows)

\* the returned rows are in non-increasing order of semantic_score, and no
\* row of the catalog left out scores higher than a returned one
BestFirst ==
    /\ \A i, j \in 1..NReturned :
          i < j => candidates.rows[i].semantic_score >= candidates.rows[j].semantic_score
    /\ \A i \in 1..NReturned : \A j \in (NReturned + 1)..Len(d) :
          d[j].semantic_score <= candidates.rows[i].semantic_score

\* C16 as stated: for every query and every integer top_k, find_candidates
\* returns at most top_k rows, in non-increasing order of semantic_score, and
\* no catalog row left out has a semantic_score higher than a row returned.
C16_AtMostTopKBestFirst ==
    Applied("find_candidates") => (NReturned <= call.top_k /\ BestFirst)

\* C16, amended: for every query and every integer top_k, find_candidates
\* returns at most max(top_k, 1) rows, in non-increasing order of
\* semantic_score, and no catalog row left out has a semantic_score higher
\* than a row returned.
C16_AtMostRaisedTopKBestFirst ==
    Applied("find_candidates") => (NReturned <= Max(call.top_k, 1) /\ BestFirst)

\* a call that left rows out, among them none better than the rows returned,
\* and returned rows of different scores
C16_Witness ==
    /\ Applied("find_candidates")
    /\ NReturned = call.top_k /\ NReturned = 2 /\ Len(d) = 3
    /\ candidates.rows[1].semantic_score > candidates.rows[2].semantic_score
    /\ candidates.rows[2].semantic_score > d[3].semantic_score

\* ---- C17
\* C17: find_candidates called with an empty query (and the default top_k)
\* over a non-empty catalog returns all catalog rows, each with
\* semantic_score 0, in their original relative order.
C17_EmptyQueryKeepsCatalog ==
    (/\ Applied("find_candidates") /\ call.query = <<>>
     /\ call.top_k = DefaultTopK /\ Len(df.rows) > 0) =>
        /\ NReturned = Len(df.rows)
        /\ \A i \in 1..NReturned : candidates.rows[i].semantic_score = 0
        /\ \A i \in 1..NReturned : d[i].idx = i

\* an empty query with top_k no smaller than the catalog, every row returned
\* with score 0, and the rows not in catalog order
C17_RowsReordered ==
    /\ Applied("find_candidates") /\ call.query = <<>>
    /\ call.top_k = DefaultTopK
    /\ NReturned = Len(df.rows)
    /\ \A i \in 1..NReturned : candidates.rows[i].semantic_score = 0
    /\ \E i \in 1..NReturned : d[i].idx # i

\* ---- C18
\* the semantic_score find_candidates gave the catalog row of index i
ScoreOfRow(i) == (CHOOSE r \in Range(d) : r.idx = i).semantic_score

\* the normalized tokens of column c of catalog row i
ColumnTokens(i, c) == ToSet(tokenize(OrEmpty(df.rows[i][c])))

\* the tokens of the fulltext SmartSearch built for catalog row i
FulltextTokens(i) == ToSet(tokenize(SmartSearch(df).rows[i]["__fulltext__"]))

\* C18: the fulltext SmartSearch builds for a row contains every normalized
\* token of the row's location, property type, features, tags and environment
\* columns, so a query token found in the row's environment or property_type
\* column gives the row a semantic_score above 0.
C18_FulltextCoversColumns ==
    Applied("find_candidates") =>
        \A i \in DOMAIN df.rows :
            /\ \A c \in {"location", "property_type", "features", "tags", "environment"} :
                  ColumnTokens(i, c) \subseteq FulltextTokens(i)
            /\ (ToSet(tokenize(call.query))
                   \cap (ColumnTokens(i, "environment") \cup ColumnTokens(i, "property_type"))
                 # {}) => ScoreOfRow(i) > 0

\* the query is a token of the row's environment and the row scores 0
C18_EnvironmentTokenIgnored ==
    /\ Applied("find_candidates")
    /\ \E i \in DOMAIN df.rows :
          /\ ToSet(tokenize(call.query)) \subseteq ColumnTokens(i, "environment")
          /\ call.query # <<>>
          /\ ScoreOfRow(i) = 0

\* ---- C19
\* the call is the query x over the one-row catalog whose text is y
AliasCall(x, y) ==
    Applied("find_candidates") /\ call.query = x /\ df = TermTable(y)

\* C19: for every canonical tag c of the alias table and every two terms x
\* and y taken from c and its aliases, the query x gets a semantic_score above
\* 0 against a row whose text is y.
C19_AliasesMatchEachOther ==
    \A c \in DOMAIN CANONICAL_TAGS : \A x \in Terms(c), y \in Terms(c) :
        AliasCall(x, y) => d[1].semantic_score > 0

\* the query "jacuzzi" against the row with feature "hot tub" scores 0
C19_JacuzziMissesHotTub ==
    AliasCall(t_jacuzzi, t_hot_tub) /\ d[1].semantic_score = 0

\* apart from the pairs with the two-word canonical tag "hot tub" on one side
\* only, every pair of terms of one group does match
C19_OneWordTermsMatch ==
    \A c \in DOMAIN CANONICAL_TAGS : \A x \in Terms(c), y \in Terms(c) :
        (AliasCall(x, y) /\ ((x = t_hot_tub) <=> (y = t_hot_tub)))
            => d[1].semantic_score > 0

\* ---- C20
\* C20: for every token set T, alias_expand(T) contains every token of T, and
\* alias_expand(alias_expand(T)) is the same set as alias_expand(T).
C20_ExpandGrowsAndSettles ==
    Applied("alias_expand") =>
        /\ ToSet(call.tokens) \subseteq out.value
        /\ out.again = out.value

\* two tokens of different groups, one an alias and one a canonical tag, both
\* groups added
C20_Witness ==
    /\ Applied("alias_expand")
    /\ call.tokens = <<t_jacuzzi, t_beach>>
    /\ {t_hot_tub, <<"s","p","a">>, <<"s","e","a">>, t_jacuzzi, t_beach} \subseteq out.value
    /\ out.again = out.value

\* ---- C21
\* C21: for all token sets A and B, jaccard and _jaccard return a value from 0
\* to 1, return 1 when A equals B and A is not empty, return 0 when both are
\* empty, and return for (A, B) what they return for (B, A).
C21_JaccardBoundsAndSymmetry ==
    Applied("jaccard") =>
        \A v \in {out.value, out.recommender} :
            /\ 0 <= v /\ v <= SCALE
            /\ (ToSet(call.a) = ToSet(call.b) /\ call.a # <<>>) => v = SCALE
            /\ (call.a = <<>> /\ call.b = <<>>) => v = 0
        /\ out.value = jaccard(ToSet(call.b), ToSet(call.a))
        /\ out.recommender = _jaccard(ToSet(call.b), ToSet(call.a))

\* two different sets that overlap in part, one given with a repeated word
C21_Witness ==
    /\ Applied("jaccard")
    /\ call.a = <<t_pool, t_pool>> /\ call.b = <<t_pool, t_beach>>
    /\ out.value = SCALE \div 2 /\ out.recommender = SCALE \div 2

\* ---- C22
\* C22: for every string x, normalize_token(normalize_token(x)) equals
\* normalize_token(x), and the result of normalize_token has no leading or
\* trailing space, also when x begins or ends with a replaced character.
C22_NormalizeIdempotent ==
    Applied("normalize_token") =>
        /\ out.again = out.value
        /\ out.value # <<>> => (out.value[1] # " " /\ out.value[Len(out.value)] # " ")

\* "!a" becomes " a", which normalizes to "a"
C22_LeadingSpaceLeft ==
    /\ Applied("normalize_token")
    /\ call.x = <<"!", "a">>
    /\ out.value = <<" ", "a">> /\ out.again = <<"a">>

\* on strings that neither begin nor end with a replaced character the
\* normalizer is idempotent and leaves no space at either end
C22_IdempotentOnKeptEnds ==
    (/\ Applied("normalize_token") /\ Strip(call.x) # <<>>
     /\ Kept(LowerChar(Strip(call.x)[1]))
     /\ Kept(LowerChar(Strip(call.x)[Len(Strip(call.x))]))) =>
        /\ out.again = out.value
        /\ out.value[1] # " " /\ out.value[Len(out.value)] # " "

\* ---- C23
\* the last call returned what the same call gives on the catalog, whatever
\* calls came before it
SameAsFirstCall ==
    /\ (call.fn = "recommend" /\ pc = "returned" /\ d # <<>>)
          => SameAsCall(llm_hints, llm_ids)
    /\ (call.fn = "recommend" /\ pc = "returned" /\ d = <<>>)
          => (ret = EmptyFrame /\ Len(df.rows) = 0)
    /\ call.fn = "find_candidates"
          => candidates \in find_candidates(SmartSearch(df), call.query, call.top_k)

RawId(i) == call.raw.rows[i].property_id

\* C24: loading a catalog through PropertyManager keeps property_id a stable
\* identifier: rows with different ids in the input have different ids after
\* _normalize, so an LLM-suggested id sets llm_id_hit only on the row that
\* carried that id in the input.
C24_IdsStayDistinct ==
    (call.fn = "PropertyManager" /\ pc # "raw") =>
        /\ \A i, j \in DOMAIN df.rows :
              RawId(i) # RawId(j) => df.rows[i].property_id # df.rows[j].property_id
        /\ \A i \in DOMAIN d :
              d[i].llm_id_hit = 1 => Strip(Str(RawId(d[i].idx))) \in IdSet(llm_ids.ids)

\* two rows loaded from the ids "P-101" and "P-102" have the same id
C24_IdsCollide ==
    /\ call.fn = "PropertyManager" /\ pc = "ready"
    /\ Len(df.rows) = 2
    /\ RawId(1) = PStr(t_P101) /\ RawId(2) = PStr(t_P102)
    /\ df.rows[1].property_id = df.rows[2].property_id

\* a file whose ids are whole numbers keeps them apart, and a suggested id
\* then hits the row that carried it and no other
C24_IntegerIdsStayDistinct ==
    (/\ call.fn = "PropertyManager" /\ pc # "raw"
     /\ \A i \in DOMAIN call.raw.rows : RawId(i).t = "int") =>
        /\ \A i, j \in DOMAIN df.rows :
              RawId(i) # RawId(j) => df.rows[i].property_id # df.rows[j].property_id
        /\ \A i \in DOMAIN d :
              d[i].llm_id_hit = 1 => Strip(Str(RawId(d[i].idx))) \in IdSet(llm_ids.ids)

\* ---- C25
\* the additive id boost inside the fit_score of row r of d
IdBoost(r) == id_boost_weight * W.den * r.llm_id_hit * SCALE

\* C25: when no signal is active (no environment, no budget, group_size 0, no
\* LLM hints) every candidate row gets the same blended score: fit_score
\* differs between two rows only by the id boost, and all rows without an id
\* hit tie.
C25_NoSignalRowsTie ==
    (Ranked /\ ~AnyActive) =>
        \A i, j \in DOMAIN d :
            /\ d[i].fit_score - IdBoost(d[i]) = d[j].fit_score - IdBoost(d[j])
            /\ (d[i].llm_id_hit = 0 /\ d[j].llm_id_hit = 0) => d[i].fit_score = d[j].fit_score

\* no signal, rows of different price, capacity and text, one with an id hit
C25_Witness ==
    /\ Ranked /\ ~AnyActive /\ Len(d) = 2
    /\ d[1].llm_id_hit = 1 /\ d[2].llm_id_hit = 0
    /\ d[1].fit_score > d[2].fit_score /\ d[2].fit_score > 0
    /\ SourceRow(1).nightly_price # SourceRow(2).nightly_price
    /\ \E i \in DOMAIN d : SourceRow(i).nightly_price = 0

\* ---- C26
\* what _env_score matches the row against
EnvWants == ToSet(_tok(UserEnv(user))) \cup ToSet(_tok(JoinSp(HintEnvs(llm_hints))))

\* the 'no preference' branch of the sub-score function of signal k is taken
NoPreferenceBranch(k) ==
    CASE k = "env"    -> EnvWants = {}
      [] k = "budget" -> user.budget_min = 0 /\ user.budget_max = 0
      [] k = "group"  -> user.group_size <= 0

\* C26: whenever _dynamic_weights gives the environment, budget or group
\* signal a non-zero weight because its input counts as supplied, the matching
\* sub-score function does not take its 'no preference' branch, so the signal
\* is not scored with the neutral 0.5 on every row.
C26_ActiveSignalNotNeutral ==
    (Ranked /\ AnyActive) =>
        \A k \in {"env", "budget", "group"} :
            W.num[k] > 0 => ~NoPreferenceBranch(k)

\* an environment of punctuation only: the signal has weight, and every row
\* gets the neutral 0.5
C26_ActiveEnvScoredNeutral ==
    /\ Ranked /\ user.environment = t_marks /\ Len(d) > 1
    /\ W.num["env"] > 0
    /\ \A i \in DOMAIN d : d[i].env_score = SCALE \div 2

\* budget and group size: a weighted signal never takes the neutral branch
C26_BudgetGroupNotNeutral ==
    (Ranked /\ AnyActive) =>
        \A k \in {"budget", "group"} : W.num[k] > 0 => ~NoPreferenceBranch(k)

\* ------------------------------------------------------------------ accounts
\* the handler that ran last and how it ended
Ran(fn) == pc = "session" /\ call.fn = fn
Done(fn) == Ran(fn) /\ out.kind = "done"
Rejected(fn) == Ran(fn) /\ out.kind = "rejected"

\* ---- C27
\* C27: after any sequence of sign_up, sign_in, sign_out, edit_profile and
\* delete_user, current_username is None or a key of users, and every record
\* of users carries the username it is stored under.
C27_CurrentUserIsAKey ==
    /\ current_username = NoneText \/ current_username \in DOMAIN users
    /\ \A k \in DOMAIN users : users[k].username = k
\* edit_profile moved the signed-in account under a new username, next to
\* another account
C27_Witness ==
    /\ Done("edit_profile")
    /\ current_username = Lower(Strip(u_Bob))
    /\ users[current_username].password_hash = _hash_pw(pw_bob, users[current_username].salt)
    /\ Cardinality(DOMAIN users) > 1

\* ---- C28
\* C28: every UserManager operation that ends by reporting a rejection
\* (duplicate or empty username, invalid password, mismatched confirmation,
\* wrong current password, unknown user, unconfirmed deletion) leaves users
\* and current_username exactly as they were before the operation.
C28_RejectionChangesNothing ==
    [][out'.kind = "rejected" =>
           (users' = users /\ current_username' = current_username)]_vars
\* edit_profile reported a duplicate username after it had written the new
\* first name: the record in memory is no longer the row on file
C28_RejectedEditStays ==
    /\ Rejected("edit_profile")
    /\ out.msg = "That username already exists."
    /\ _save(users) # users_csv
\* the rejections of every handler but edit_profile change nothing
C28_OtherRejectionsChangeNothing ==
    [][(out'.kind = "rejected" /\ call'.fn # "edit_profile") =>
           (users' = users /\ current_username' = current_username)]_vars

\* ---- C29
\* the handlers that end with _save
Saving == {"sign_up", "edit_profile", "delete_user"}
PasswordOf(rec) ==
    SubSeq(rec.password_hash.sha256, Len(rec.salt) + 1, Len(rec.password_hash.sha256))
\* at least 8 characters, with an uppercase letter, a lowercase letter, a digit
\* and a special character
CharacterRules(pw) ==
    /\ Len(pw) >= MinPasswordLen
    /\ \E i \in DOMAIN pw : pw[i] \in Range(UpperLetters)
    /\ \E i \in DOMAIN pw : pw[i] \in Range(LowerLetters)
    /\ \E i \in DOMAIN pw : pw[i] \in Range(Digits)
    /\ \E i \in DOMAIN pw :
           pw[i] \notin Range(UpperLetters) \cup Range(LowerLetters) \cup Range(Digits)
\* the password holds the username, whatever the case (an empty username is
\* held by no password)
HoldsUsername(pw, username) ==
    username # <<>> /\ Contains(Lower(pw), Lower(username))
\* C30: at all times, for every stored account, the password whose hash is
\* stored satisfies the password rules against the account's current username:
\* at least 8 characters with an uppercase letter, a lowercase letter, a digit
\* and a special character, and not containing the current username
\* (case-insensitive), also after edit_profile changed the username.
C30_StoredPasswordsFollowRules ==
    \A k \in DOMAIN users :
        /\ CharacterRules(PasswordOf(users[k]))
        /\ ~HoldsUsername(PasswordOf(users[k]), users[k].username)
\* edit_profile renamed an account to a name its password contains
C30_RenamedIntoPassword ==
    /\ Done("edit_profile")
    /\ current_username \in DOMAIN users
    /\ users[current_username].username = current_username
    /\ HoldsUsername(PasswordOf(users[current_username]), current_username)
\* the character rules alone hold of every stored password
C30_CharacterRulesHold ==
    \A k \in DOMAIN users : CharacterRules(PasswordOf(users[k]))

====
